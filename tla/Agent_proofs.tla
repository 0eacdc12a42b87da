---------------------------- MODULE Agent_proofs ----------------------------
(***************************************************************************)
(* The agent's memory, for any budget, any replies and any number of       *)
(* rounds and calls: what the language model is asked is well-formed and   *)
(* recent, and no turn costs an earlier one, as long as the history is     *)
(* only cleared between turns.                                             *)
(*                                                                         *)
(* The agent's turns, for any number of turns, segments and disturbances:  *)
(* the types of the conversation's state, that a barge-in silences the     *)
(* agent, and, where a turn's flush never has to wait for the send lock,   *)
(* that the server holds the text of one turn at most.                     *)
(***************************************************************************)
EXTENDS AgentTurns, ConversationMemory, FiniteSetTheorems, SequenceTheorems, WellFoundedInduction,
        TLAPS

(***************************************************************************)
(* ConversationMemory                                                      *)
(***************************************************************************)
(* The first n messages are a history of whole rounds. *)
PairedTo(messages, n) ==
    \A i \in 1 .. n :
        /\ messages[i].calls > 0 =>
             /\ i + messages[i].calls <= n
             /\ \A k \in 1 .. messages[i].calls : messages[i + k].role = "tool"
        /\ messages[i].role = "tool" =>
             \E k \in 1 .. MaxCalls : i - k > 0 /\ messages[i - k].calls >= k

(* A turn's utterance, and what the turn has added behind it. *)
TurnInv ==
    /\ turn.anchor \in 1 .. Len(history)
    /\ history[turn.anchor].role = "user" /\ history[turn.anchor].calls = 0
    /\ \A i \in turn.anchor + 1 .. Len(history) : history[i].role # "user"
    /\ PairedTo(history, turn.anchor)

(* The message whose calls are being answered, and the answers so far. *)
Caller == Len(history) - turn.answered

RoundInv ==
    /\ turn.answered <= turn.calls /\ turn.calls > 0
    /\ Caller > turn.anchor
    /\ history[Caller].calls = turn.calls /\ history[Caller].role = "assistant"
    /\ \A i \in Caller + 1 .. Len(history) : history[i].role = "tool" /\ history[i].calls = 0
    /\ PairedTo(history, Caller - 1)

MemoryInv ==
    /\ MemoryTypeOK
    /\ history # <<>> => history[1].role = "user"
    /\ turn.pc # "calling" => PairedTo(history, Len(history))
    /\ turn.pc # "idle" => TurnInv
    /\ turn.pc = "calling" => RoundInv
    /\ PromptIsRecentHistory

-----------------------------------------------------------------------------
(* A set of natural numbers has a least one. *)
LEMMA MinIsLeast ==
    ASSUME NEW S \in SUBSET Nat, S # {}
    PROVE  Min(S) \in S /\ \A n \in S : Min(S) <= n
<1>1. PICK m \in S : \A n \in S : ~(<<n, m>> \in OpToRel(<, Nat))
  BY NatLessThanWellFounded, WFMin
<1>2. \A n \in S : m <= n
  <2>1. OpToRel(<, Nat) = {p \in Nat \X Nat : p[1] < p[2]}
    BY DEF OpToRel
  <2>2. \A n \in S : n < m => <<n, m>> \in {p \in Nat \X Nat : p[1] < p[2]}
    OBVIOUS
  <2>3. \A n \in S : ~(n < m)
    BY <1>1, <2>1, <2>2
  <2>. QED
    BY <2>3
<1>. QED
  BY <1>2 DEF Min

LEMMA MaxIs ==
    ASSUME NEW S \in SUBSET Nat, NEW m \in S, \A n \in S : n <= m
    PROVE  Max(S) = m
<1>1. \A x \in S : (\A n \in S : x >= n) => x = m
  OBVIOUS
<1>2. m \in S /\ \A n \in S : m >= n
  OBVIOUS
<1>. QED
  BY <1>1, <1>2 DEF Max

(* Adding a message, cutting a tail off, taking a tail. *)
LEMMA Appended ==
    ASSUME NEW s \in Seq(Message), NEW m \in Message
    PROVE  /\ Append(s, m) \in Seq(Message) /\ Len(Append(s, m)) = Len(s) + 1
           /\ \A i \in 1 .. Len(s) : Append(s, m)[i] = s[i]
           /\ Append(s, m)[Len(s) + 1] = m /\ Append(s, m) # <<>>
  BY AppendProperties

LEMMA TailFrom ==
    ASSUME NEW s \in Seq(Message), NEW n \in 1 .. Len(s)
    PROVE  /\ From(s, n) \in Seq(Message) /\ Len(From(s, n)) = Len(s) - n + 1
           /\ \A i \in 1 .. Len(s) - n + 1 : From(s, n)[i] = s[n + i - 1]
  BY SubSeqProperties, ElementOfSeq DEF From

LEMMA HeadTo ==
    ASSUME NEW s \in Seq(Message), NEW n \in 0 .. Len(s)
    PROVE  /\ SubSeq(s, 1, n) \in Seq(Message) /\ Len(SubSeq(s, 1, n)) = n
           /\ \A i \in 1 .. n : SubSeq(s, 1, n)[i] = s[i]
  BY SubSeqProperties, ElementOfSeq

LEMMA MessagesTyped ==
    /\ \A n \in Sizes : User(n) \in Message /\ User(n).role = "user" /\ User(n).calls = 0
    /\ \A r \in Replies \cup {NoText}, n \in 0 .. MaxCalls :
          /\ Assistant(r, n) \in Message
          /\ Assistant(r, n).role = "assistant" /\ Assistant(r, n).calls = n
    /\ Tool \in Message /\ Tool.role = "tool" /\ Tool.calls = 0
  BY MemoryAssumption DEF User, Assistant, Tool, Message

-----------------------------------------------------------------------------
LEMMA CallsTyped ==
    ASSUME NEW s \in Seq(Message)
    PROVE  /\ Len(s) \in Nat /\ DOMAIN s = 1 .. Len(s)
           /\ \A i \in 1 .. Len(s) : s[i] \in Message /\ s[i].calls \in Nat
<1>1. Len(s) \in Nat /\ DOMAIN s = 1 .. Len(s)
  BY LenProperties
<1>2. \A i \in 1 .. Len(s) : s[i] \in Message
  BY ElementOfSeq
<1>3. \A m \in Message : m.calls \in Nat
  BY MemoryAssumption DEF Message
<1>. QED
  BY <1>1, <1>2, <1>3

(* What rounds are made of does not change behind one's back. *)
LEMMA PairedSame ==
    ASSUME NEW s \in Seq(Message), NEW u \in Seq(Message), NEW n \in 0 .. Len(s), PairedTo(s, n),
           n <= Len(u), \A i \in 1 .. n : u[i] = s[i]
    PROVE  PairedTo(u, n)
<1>0. Len(s) \in Nat /\ n \in Nat
  BY CallsTyped
<1>1. \A i \in 1 .. n : u[i] = s[i] /\ s[i].calls \in Nat
  BY <1>0, CallsTyped
<1>2. \A i \in 1 .. n : \A k \in 1 .. MaxCalls : i - k > 0 => i - k \in 1 .. n
  BY <1>0, MemoryAssumption
<1>3. \A i \in 1 .. n : s[i].calls > 0 => \A k \in 1 .. s[i].calls : i + k \in 1 .. n
  BY <1>0, <1>1 DEF PairedTo
<1>. QED
  BY <1>1, <1>2, <1>3 DEF PairedTo

(* A message without calls that is no result ends one history of whole      *)
(* rounds and begins the next.                                             *)
LEMMA PairedAppend ==
    ASSUME NEW s \in Seq(Message), NEW m \in Message, PairedTo(s, Len(s)),
           m.role # "tool", m.calls = 0
    PROVE  PairedTo(Append(s, m), Len(s) + 1)
<1>. DEFINE u == Append(s, m)
<1>1. /\ u \in Seq(Message) /\ Len(u) = Len(s) + 1 /\ u[Len(s) + 1] = m
      /\ \A i \in 1 .. Len(s) : u[i] = s[i]
      /\ Len(s) \in Nat
  BY Appended, CallsTyped
<1>. HIDE DEF u
<1>2. PairedTo(u, Len(s))
  BY <1>1, PairedSame
<1>3. \A i \in 1 .. Len(s) + 1 : i \in 1 .. Len(s) \/ i = Len(s) + 1
  BY <1>1
<1>4. \A i \in 1 .. Len(s) : u[i].calls \in Nat
  BY <1>1, CallsTyped
<1>5. PairedTo(u, Len(s) + 1)
  BY <1>1, <1>2, <1>3, <1>4 DEF PairedTo
<1>. QED
  BY <1>5 DEF u

(* From a user's message on, whole rounds are whole. *)
LEMMA PairedFrom ==
    ASSUME NEW s \in Seq(Message), NEW n \in 1 .. Len(s), PairedTo(s, Len(s)), s[n].role = "user"
    PROVE  Valid(From(s, n))
<1>. DEFINE u == From(s, n)
<1>0. Len(s) \in Nat /\ \A i \in 1 .. Len(s) : s[i].calls \in Nat
  BY CallsTyped
<1>1. u \in Seq(Message) /\ Len(u) = Len(s) - n + 1
  BY TailFrom
<1>2. DOMAIN u = 1 .. Len(u)
  BY <1>1, CallsTyped
<1>3. \A i \in 1 .. Len(u) : u[i] = s[n + i - 1] /\ n + i - 1 \in 1 .. Len(s)
  BY <1>0, <1>1, TailFrom
<1>. HIDE DEF u
<1>4. ASSUME NEW i \in 1 .. Len(u), u[i].calls > 0
      PROVE  /\ i + u[i].calls <= Len(u)
             /\ \A k \in 1 .. u[i].calls : u[i + k].role = "tool"
  <2>. DEFINE j == n + i - 1
  <2>1. /\ j \in 1 .. Len(s) /\ u[i] = s[j] /\ s[j].calls \in Nat
        /\ j + s[j].calls <= Len(s)
        /\ \A k \in 1 .. s[j].calls : s[j + k].role = "tool"
    BY <1>0, <1>3, <1>4 DEF PairedTo
  <2>2. i + u[i].calls <= Len(u)
    BY <1>0, <1>1, <2>1
  <2>3. \A k \in 1 .. u[i].calls : i + k \in 1 .. Len(u) /\ n + (i + k) - 1 = j + k
    BY SMTT(30), <1>0, <1>1, <2>1, <2>2
  <2>4. \A k \in 1 .. u[i].calls : u[i + k] = s[j + k]
    BY <1>3, <2>3
  <2>. QED
    BY <2>1, <2>2, <2>4
<1>5. ASSUME NEW i \in 1 .. Len(u), u[i].role = "tool"
      PROVE  \E k \in 1 .. MaxCalls : i - k > 0 /\ u[i - k].calls >= k
  <2>. DEFINE j == n + i - 1
  <2>0. j \in 1 .. Len(s) /\ u[i] = s[j]
    BY <1>3
  <2>. HIDE DEF j
  <2>1. PICK k \in 1 .. MaxCalls : j - k > 0 /\ s[j - k].calls >= k
    BY <1>5, <2>0 DEF PairedTo
  <2>2. k \in Nat \ {0} /\ j - k \in 1 .. Len(s)
    BY <1>0, <2>0, <2>1, MemoryAssumption
  <2>3. s[j - k].calls \in Nat /\ k \in 1 .. s[j - k].calls
    BY <1>0, <2>1, <2>2
  <2>4. \A l \in 1 .. s[j - k].calls : s[(j - k) + l].role = "tool"
    BY SMTT(30), <2>2, <2>3 DEF PairedTo
  <2>5. j # n
    BY <1>5, <2>0
  <2>6. j - k >= n
    <3>. SUFFICES ASSUME j - k < n PROVE FALSE
      BY <2>2
    <3>1. j > n
      BY <1>0, <2>5 DEF j
    <3>2. n - (j - k) \in 1 .. s[j - k].calls /\ (j - k) + (n - (j - k)) = n
      BY <1>0, <2>0, <2>1, <2>2, <2>3, <3>1
    <3>. QED
      BY <2>4, <3>2
  <2>7. i - k \in 1 .. Len(u) /\ n + (i - k) - 1 = j - k
    BY <1>0, <1>1, <2>2, <2>6 DEF j
  <2>8. u[i - k] = s[j - k]
    BY <1>3, <2>7
  <2>9. u[i - k].calls >= k
    BY <2>1, <2>8
  <2>10. i - k > 0
    BY <2>7
  <2>. QED
    BY <2>9, <2>10
<1>. QED
  BY <1>2, <1>4, <1>5 DEF Valid, u

(* What is between two messages does not depend on what follows them. *)
LEMMA MiddleSame ==
    ASSUME NEW s \in Seq(Message), NEW u \in Seq(Message), NEW i \in Nat \ {0}, NEW n \in 0 .. Len(s),
           n <= Len(u), \A j \in 1 .. n : u[j] = s[j]
    PROVE  SubSeq(u, i, n) = SubSeq(s, i, n)
<1>0. n \in Nat
  BY CallsTyped
<1>1. \A j \in i .. n : s[j] \in Message /\ u[j] = s[j]
  BY <1>0, CallsTyped
<1>2. /\ SubSeq(s, i, n) \in Seq(Message) /\ SubSeq(u, i, n) \in Seq(Message)
      /\ Len(SubSeq(s, i, n)) = (IF i <= n THEN n - i + 1 ELSE 0)
      /\ Len(SubSeq(u, i, n)) = (IF i <= n THEN n - i + 1 ELSE 0)
      /\ \A j \in 1 .. n - i + 1 : SubSeq(s, i, n)[j] = s[i + j - 1]
      /\ \A j \in 1 .. n - i + 1 : SubSeq(u, i, n)[j] = u[i + j - 1]
  BY <1>0, <1>1, SubSeqProperties
<1>3. \A j \in 1 .. n - i + 1 : i + j - 1 \in i .. n
  BY <1>0
<1>4. \A j \in 1 .. Len(SubSeq(u, i, n)) : SubSeq(u, i, n)[j] = SubSeq(s, i, n)[j]
  BY <1>0, <1>1, <1>2, <1>3
<1>. QED
  BY <1>2, <1>4, SeqEqual

(* The sink adds to a tail what it adds to the whole. *)
LEMMA TailGrows ==
    ASSUME NEW s \in Seq(Message), NEW m \in Message, NEW n \in 1 .. Len(s)
    PROVE  From(Append(s, m), n) = Append(From(s, n), m)
<1>. DEFINE u == Append(s, m)
<1>1. /\ u \in Seq(Message) /\ Len(u) = Len(s) + 1 /\ u[Len(s) + 1] = m
      /\ \A i \in 1 .. Len(s) : u[i] = s[i]
      /\ Len(s) \in Nat
  BY Appended, CallsTyped
<1>. HIDE DEF u
<1>2. /\ From(s, n) \in Seq(Message) /\ Len(From(s, n)) = Len(s) - n + 1
      /\ \A i \in 1 .. Len(s) - n + 1 : From(s, n)[i] = s[n + i - 1]
  BY TailFrom
<1>3. n \in 1 .. Len(u)
  BY <1>1
<1>4. /\ From(u, n) \in Seq(Message) /\ Len(From(u, n)) = Len(u) - n + 1
      /\ \A i \in 1 .. Len(u) - n + 1 : From(u, n)[i] = u[n + i - 1]
  BY <1>1, <1>3, TailFrom
<1>. DEFINE v == Append(From(s, n), m)
<1>5. /\ v \in Seq(Message) /\ Len(v) = Len(s) - n + 2 /\ v[Len(s) - n + 2] = m
      /\ \A i \in 1 .. Len(s) - n + 1 : v[i] = s[n + i - 1]
  <2>. DEFINE t == From(s, n)
  <2>1. t \in Seq(Message) /\ Len(t) = Len(s) - n + 1
    BY <1>2
  <2>. HIDE DEF t
  <2>2. /\ Append(t, m) \in Seq(Message) /\ Len(Append(t, m)) = Len(t) + 1
        /\ \A i \in 1 .. Len(t) : Append(t, m)[i] = t[i]
        /\ Append(t, m)[Len(t) + 1] = m
    BY <2>1, Appended
  <2>3. Len(t) + 1 = Len(s) - n + 2
    BY <1>1, <2>1
  <2>4. v = Append(t, m)
    BY DEF t
  <2>5. \A i \in 1 .. Len(s) - n + 1 : t[i] = s[n + i - 1]
    BY <1>2 DEF t
  <2>. QED
    BY <2>1, <2>2, <2>3, <2>4, <2>5
<1>. HIDE DEF v
<1>6. Len(From(u, n)) = Len(v)
  BY <1>1, <1>4, <1>5
<1>7. ASSUME NEW i \in 1 .. Len(v) PROVE From(u, n)[i] = v[i]
  <2>1. From(u, n)[i] = u[n + i - 1]
    BY <1>1, <1>4, <1>5
  <2>2. CASE i <= Len(s) - n + 1
    <3>1. i \in 1 .. Len(s) - n + 1 /\ n + i - 1 \in 1 .. Len(s)
      BY <1>1, <1>5, <2>2
    <3>. QED
      BY <1>1, <1>5, <2>1, <3>1
  <2>3. CASE i = Len(s) - n + 2
    <3>1. n + i - 1 = Len(s) + 1
      BY <1>1, <2>3
    <3>. QED
      BY <1>1, <1>5, <2>1, <2>3, <3>1
  <2>. QED
    <3>1. Len(v) \in Nat /\ Len(v) = Len(s) - n + 2 /\ n \in Nat
      BY <1>1, <1>5
    <3>. HIDE DEF v
    <3>2. i \in Nat /\ i <= Len(s) - n + 2
      BY <3>1
    <3>. QED
      BY SMTT(30), <1>1, <2>2, <2>3, <3>1, <3>2
<1>8. From(u, n) = v
  BY <1>4, <1>5, <1>6, <1>7, SeqEqual
<1>. QED
  BY <1>8 DEF u, v

-----------------------------------------------------------------------------
(* A message that is not the user's leaves the turn and its prompt's place  *)
(* in the history as they are.                                             *)
LEMMA SinkKeepsTurn ==
    ASSUME MemoryInv, turn.pc # "idle", NEW m \in Message, m.role # "user", Sink(m),
           turn'.pc # "idle", turn'.anchor = turn.anchor
    PROVE  /\ history' \in Seq(Message) /\ prompt' \in Seq(Message)
           /\ history' # <<>> /\ history'[1].role = "user"
           /\ TurnInv' /\ PromptIsRecentHistory'
<1>1. /\ history \in Seq(Message) /\ prompt \in Seq(Message)
      /\ Len(history) \in Nat /\ Len(prompt) \in Nat
      /\ turn.anchor \in 1 .. Len(history)
  BY CallsTyped DEF MemoryInv, MemoryTypeOK, TurnInv
<1>2. /\ history' \in Seq(Message) /\ prompt' \in Seq(Message) /\ history' # <<>>
      /\ Len(history') = Len(history) + 1 /\ Len(prompt') = Len(prompt) + 1
      /\ \A i \in 1 .. Len(history) : history'[i] = history[i]
      /\ history'[Len(history) + 1] = m
  BY <1>1, Appended DEF Sink
<1>3. history # <<>> /\ history[1].role = "user"
  BY <1>1, EmptySeq DEF MemoryInv
<1>4. TurnInv'
  <2>1. PairedTo(history, turn.anchor)'
    <3>1. PairedTo(history, turn.anchor)
      BY DEF MemoryInv, TurnInv
    <3>2. PairedTo(history', turn.anchor)
      <4>1. turn.anchor \in 0 .. Len(history) /\ turn.anchor <= Len(history')
        BY <1>1, <1>2
      <4>2. \A i \in 1 .. turn.anchor : history'[i] = history[i]
        BY <1>1, <1>2
      <4>. QED
        BY <1>1, <1>2, <3>1, <4>1, <4>2, PairedSame
    <3>. QED
      BY <3>2 DEF PairedTo
  <2>2. turn.anchor \in 1 .. Len(history') /\ history'[turn.anchor] = history[turn.anchor]
    BY <1>1, <1>2
  <2>3. \A i \in turn.anchor + 1 .. Len(history') :
           i \in turn.anchor + 1 .. Len(history) \/ i = Len(history) + 1
    BY <1>1, <1>2
  <2>4. \A i \in turn.anchor + 1 .. Len(history) : history'[i] = history[i]
    BY <1>1, <1>2
  <2>. QED
    BY <1>2, <2>1, <2>2, <2>3, <2>4 DEF MemoryInv, TurnInv
<1>5. PromptIsRecentHistory'
  <2>. DEFINE first == Len(history) - Len(prompt) + 1
  <2>1. /\ first \in 1 .. turn.anchor /\ prompt = From(history, first)
        /\ history[first].role = "user"
        /\ \A i \in Utterances(history) : i < first => ~Fits(i, turn.anchor)
        /\ first < turn.anchor => Fits(first, turn.anchor)
    BY DEF MemoryInv, PromptIsRecentHistory
  <2>2. Len(history') - Len(prompt') + 1 = first /\ first \in 1 .. Len(history)
    BY <1>1, <1>2, <2>1
  <2>. HIDE DEF first
  <2>3. prompt' = From(history', first)
    BY <1>1, <2>1, <2>2, TailGrows DEF Sink
  <2>4. history'[first] = history[first]
    BY <1>2, <2>2
  <2>5. \A i \in Nat \ {0} : SubSeq(history', i, turn.anchor) = SubSeq(history, i, turn.anchor)
    BY <1>1, <1>2, MiddleSame
  <2>6. \A i \in Nat \ {0} : Fits(i, turn.anchor)' <=> Fits(i, turn.anchor)
    BY <2>5 DEF Fits
  <2>7. \A i \in Utterances(history)' : i < first => i \in Utterances(history) /\ i \in Nat \ {0}
    <3>1. DOMAIN history' = 1 .. Len(history) + 1 /\ DOMAIN history = 1 .. Len(history)
      BY <1>1, <1>2, CallsTyped
    <3>. QED
      BY <1>1, <1>2, <2>2, <3>1 DEF Utterances
  <2>8. first \in Nat \ {0}
    BY <1>1, <2>2
  <2>. QED
    BY <2>1, <2>2, <2>3, <2>4, <2>6, <2>7, <2>8 DEF PromptIsRecentHistory
<1>. QED
  BY <1>2, <1>3, <1>4, <1>5

LEMMA SinkTool ==
    ASSUME MemoryInv, ToolAnswers
    PROVE  MemoryInv'
<1>1. /\ turn.pc = "calling" /\ turn.answered < turn.calls
      /\ turn' = [turn EXCEPT !.answered = @ + 1]
      /\ turn.calls \in 0 .. MaxCalls /\ turn.answered \in 0 .. MaxCalls
      /\ turn.anchor \in 1 .. Len(history) /\ Len(history) \in Nat
      /\ history \in Seq(Message)
  BY CallsTyped DEF MemoryInv, MemoryTypeOK, ToolAnswers, TurnInv
<1>2. turn' \in [pc : {"idle", "asking", "calling"}, round : 0 .. MaxRounds, anchor : Nat,
                 calls : 0 .. MaxCalls, answered : 0 .. MaxCalls]
  <2>1. turn.answered + 1 \in 0 .. MaxCalls
    BY <1>1, MemoryAssumption
  <2>2. turn \in [pc : {"idle", "asking", "calling"}, round : 0 .. MaxRounds, anchor : Nat,
                 calls : 0 .. MaxCalls, answered : 0 .. MaxCalls]
    BY DEF MemoryInv, MemoryTypeOK
  <2>. QED
    BY <1>1, <2>1, <2>2
<1>3. /\ turn'.pc = "calling" /\ turn'.anchor = turn.anchor /\ turn'.calls = turn.calls
      /\ turn'.answered = turn.answered + 1
  BY <1>1 DEF MemoryInv, MemoryTypeOK
<1>4. /\ history' \in Seq(Message) /\ prompt' \in Seq(Message)
      /\ history' # <<>> /\ history'[1].role = "user"
      /\ TurnInv' /\ PromptIsRecentHistory'
  BY <1>1, <1>3, MessagesTyped, SinkKeepsTurn DEF ToolAnswers
<1>5. RoundInv'
  <2>1. /\ Len(history') = Len(history) + 1 /\ history'[Len(history) + 1] = Tool
        /\ \A i \in 1 .. Len(history) : history'[i] = history[i]
    BY <1>1, MessagesTyped, Appended DEF ToolAnswers, Sink
  <2>2. Caller' = Caller /\ Caller \in 1 .. Len(history) /\ Caller > turn.anchor
    <3>1. Caller > turn.anchor
      BY <1>1 DEF MemoryInv, RoundInv
    <3>2. turn.answered \in Nat /\ turn.anchor \in Nat \ {0} /\ turn.calls \in Nat
      BY <1>1, MemoryAssumption
    <3>3. Caller' = Len(history') - turn'.answered
      BY DEF Caller
    <3>4. Caller' = Len(history) - turn.answered
      BY <1>1, <1>3, <2>1, <3>2, <3>3
    <3>. QED
      BY <1>1, <3>1, <3>2, <3>4 DEF Caller
  <2>3. \A i \in Caller + 1 .. Len(history') : i \in Caller + 1 .. Len(history) \/ i = Len(history) + 1
    BY <1>1, <2>1, <2>2
  <2>4. \A i \in Caller + 1 .. Len(history) : history'[i] = history[i]
    BY <1>1, <2>1, <2>2
  <2>5. PairedTo(history', Caller - 1)
    <3>1. PairedTo(history, Caller - 1)
      BY <1>1 DEF MemoryInv, RoundInv
    <3>2. Caller - 1 \in 0 .. Len(history) /\ Caller - 1 <= Len(history')
      BY <1>1, <2>1, <2>2
    <3>3. \A i \in 1 .. Caller - 1 : history'[i] = history[i]
      BY <1>1, <2>1, <2>2
    <3>. HIDE DEF Caller
    <3>. QED
      BY <1>1, <1>4, <3>1, <3>2, <3>3, PairedSame
  <2>6. history'[Caller] = history[Caller]
    BY <2>1, <2>2
  <2>. HIDE DEF Caller
  <2>7. \A i \in Caller + 1 .. Len(history') : history'[i].role = "tool" /\ history'[i].calls = 0
    BY <1>1, <2>1, <2>3, <2>4, MessagesTyped DEF MemoryInv, RoundInv
  <2>8. PairedTo(history, Caller - 1)' <=> PairedTo(history', Caller' - 1)
    BY DEF PairedTo
  <2>9. turn'.answered <= turn'.calls /\ turn'.calls > 0
    BY <1>1, <1>3
  <2>10. history'[Caller'].calls = turn'.calls /\ history'[Caller'].role = "assistant"
    BY <1>1, <1>3, <2>2, <2>6 DEF MemoryInv, RoundInv
  <2>. QED
    BY <1>3, <2>2, <2>5, <2>7, <2>8, <2>9, <2>10 DEF RoundInv
<1>. QED
  BY <1>2, <1>3, <1>4, <1>5 DEF MemoryInv, MemoryTypeOK

LEMMA SinkCalls ==
    ASSUME MemoryInv, CallsTools
    PROVE  MemoryInv'
<1>1. PICK n \in 1 .. MaxCalls, r \in Replies \cup {NoText} :
          /\ Sink(Assistant(r, n))
          /\ turn' = [turn EXCEPT !.pc = "calling", !.calls = n, !.answered = 0]
  BY DEF CallsTools
<1>2. /\ turn.pc = "asking" /\ n \in Nat \ {0} /\ n \in 0 .. MaxCalls /\ 0 \in 0 .. MaxCalls
      /\ turn.anchor \in 1 .. Len(history) /\ Len(history) \in Nat
      /\ history \in Seq(Message) /\ PairedTo(history, Len(history))
      /\ turn \in [pc : {"idle", "asking", "calling"}, round : 0 .. MaxRounds, anchor : Nat,
                   calls : 0 .. MaxCalls, answered : 0 .. MaxCalls]
  BY SMTT(30), CallsTyped, MemoryAssumption DEF MemoryInv, MemoryTypeOK, CallsTools, TurnInv
<1>3. /\ turn' \in [pc : {"idle", "asking", "calling"}, round : 0 .. MaxRounds, anchor : Nat,
                   calls : 0 .. MaxCalls, answered : 0 .. MaxCalls]
      /\ turn'.pc = "calling" /\ turn'.anchor = turn.anchor /\ turn'.calls = n /\ turn'.answered = 0
  BY <1>1, <1>2
<1>. DEFINE m == Assistant(r, n)
<1>4. m \in Message /\ m.role = "assistant" /\ m.calls = n
  <2>1. r \in Replies \cup {NoText} /\ n \in 0 .. MaxCalls
    BY <1>2
  <2>2. /\ Assistant(r, n) \in Message
        /\ Assistant(r, n).role = "assistant" /\ Assistant(r, n).calls = n
    BY <2>1, MessagesTyped, Zenon
  <2>. QED
    BY <2>2
<1>. HIDE DEF m
<1>5. Sink(m)
  BY <1>1 DEF m
<1>6. /\ history' \in Seq(Message) /\ prompt' \in Seq(Message)
      /\ history' # <<>> /\ history'[1].role = "user"
      /\ TurnInv' /\ PromptIsRecentHistory'
  BY <1>2, <1>3, <1>4, <1>5, SinkKeepsTurn
<1>7. RoundInv'
  <2>1. /\ Len(history') = Len(history) + 1 /\ history'[Len(history) + 1] = m
        /\ \A i \in 1 .. Len(history) : history'[i] = history[i]
    BY <1>2, <1>4, <1>5, Appended DEF Sink
  <2>2. Caller' = Len(history) + 1
    BY <1>2, <1>3, <2>1 DEF Caller
  <2>3. PairedTo(history', Len(history))
    <3>1. Len(history) \in 0 .. Len(history) /\ Len(history) <= Len(history')
      BY <1>2, <2>1
    <3>. QED
      BY <1>2, <1>6, <2>1, <3>1, PairedSame
  <2>4. Caller' - 1 = Len(history) /\ Caller' > turn.anchor
    BY <1>2, <2>2
  <2>. HIDE DEF Caller
  <2>5. PairedTo(history, Caller - 1)' <=> PairedTo(history', Caller' - 1)
    BY DEF PairedTo
  <2>6. \A i \in Caller' + 1 .. Len(history') : FALSE
    BY <1>2, <2>1, <2>2
  <2>7. turn'.answered <= turn'.calls /\ turn'.calls > 0
    BY <1>2, <1>3
  <2>. QED
    BY <1>3, <1>4, <2>1, <2>2, <2>3, <2>4, <2>5, <2>6, <2>7 DEF RoundInv
<1>. QED
  BY <1>3, <1>6, <1>7 DEF MemoryInv, MemoryTypeOK

(* A round whose calls are all answered is whole. *)
LEMMA RoundIsWhole ==
    ASSUME MemoryInv, RoundAnswered
    PROVE  PairedTo(history, Len(history))
<1>1. /\ RoundInv /\ turn.answered = turn.calls /\ turn.calls \in 1 .. MaxCalls
      /\ turn.anchor \in Nat \ {0} /\ Len(history) \in Nat /\ history \in Seq(Message)
      /\ \A i \in 1 .. Len(history) : history[i].calls \in Nat
  BY CallsTyped, MemoryAssumption DEF MemoryInv, MemoryTypeOK, RoundAnswered, RoundInv, TurnInv
<1>2. Caller \in 2 .. Len(history) /\ Caller + turn.calls = Len(history)
  BY <1>1 DEF RoundInv, Caller
<1>3. /\ history[Caller].calls = turn.calls /\ history[Caller].role = "assistant"
      /\ \A i \in Caller + 1 .. Len(history) : history[i].role = "tool" /\ history[i].calls = 0
      /\ PairedTo(history, Caller - 1)
  BY <1>1 DEF RoundInv
<1>. HIDE DEF Caller
<1>4. ASSUME NEW i \in 1 .. Len(history), i < Caller
      PROVE  /\ history[i].calls > 0 =>
                   /\ i + history[i].calls <= Len(history)
                   /\ \A k \in 1 .. history[i].calls : history[i + k].role = "tool"
             /\ history[i].role = "tool" =>
                   \E k \in 1 .. MaxCalls : i - k > 0 /\ history[i - k].calls >= k
  BY SMTT(30), <1>1, <1>2, <1>3, <1>4 DEF PairedTo
<1>5. \A k \in 1 .. turn.calls : history[Caller + k].role = "tool"
  <2>1. \A k \in 1 .. turn.calls : Caller + k \in Caller + 1 .. Len(history)
    BY <1>1, <1>2
  <2>. QED
    BY <1>3, <2>1
<1>6. ASSUME NEW i \in 1 .. Len(history), i > Caller
      PROVE  history[i].calls = 0 /\ \E k \in 1 .. MaxCalls : i - k > 0 /\ history[i - k].calls >= k
  <2>1. i - Caller \in 1 .. MaxCalls /\ i - (i - Caller) = Caller /\ i - Caller <= turn.calls
    BY <1>1, <1>2, <1>6, MemoryAssumption
  <2>2. i \in Caller + 1 .. Len(history) /\ Caller > 0
    BY <1>1, <1>2, <1>6
  <2>. QED
    BY <1>3, <2>1, <2>2
<1>7. \A i \in 1 .. Len(history) : i < Caller \/ i = Caller \/ i > Caller
  BY <1>1, <1>2
<1>8. ASSUME NEW i \in 1 .. Len(history)
      PROVE  /\ history[i].calls > 0 =>
                   /\ i + history[i].calls <= Len(history)
                   /\ \A k \in 1 .. history[i].calls : history[i + k].role = "tool"
             /\ history[i].role = "tool" =>
                   \E k \in 1 .. MaxCalls : i - k > 0 /\ history[i - k].calls >= k
  <2>1. CASE i < Caller
    BY <1>4, <2>1
  <2>2. CASE i = Caller
    BY <1>2, <1>3, <1>5, <2>2
  <2>3. CASE i > Caller
    BY <1>6, <2>3
  <2>. QED
    BY <1>7, <2>1, <2>2, <2>3
<1>. QED
  BY <1>8 DEF PairedTo

LEMMA RoundGoesOn ==
    ASSUME MemoryInv, NextRound
    PROVE  MemoryInv'
<1>1. PairedTo(history, Len(history)) /\ turn.pc = "calling"
  BY RoundIsWhole DEF NextRound, RoundAnswered
<1>2. /\ turn' \in [pc : {"idle", "asking", "calling"}, round : 0 .. MaxRounds, anchor : Nat,
                   calls : 0 .. MaxCalls, answered : 0 .. MaxCalls]
      /\ turn'.pc = "asking" /\ turn'.anchor = turn.anchor
  <2>1. turn.round + 1 \in 0 .. MaxRounds
    BY MemoryAssumption DEF MemoryInv, MemoryTypeOK, NextRound
  <2>. QED
    BY <2>1 DEF MemoryInv, MemoryTypeOK, NextRound
<1>3. history' = history /\ prompt' = prompt
  BY DEF NextRound
<1>4. PairedTo(history, Len(history))'
  BY <1>1, <1>3 DEF PairedTo
<1>5. TurnInv'
  BY <1>1, <1>2, <1>3 DEF MemoryInv, TurnInv, PairedTo
<1>6. \A i, j : Fits(i, j)' <=> Fits(i, j)
  BY <1>3 DEF Fits
<1>7. Utterances(history)' = Utterances(history)
  BY <1>3
<1>8. PromptIsRecentHistory'
  BY <1>1, <1>2, <1>3, <1>6, <1>7 DEF MemoryInv, PromptIsRecentHistory
<1>. QED
  BY <1>2, <1>3, <1>4, <1>5, <1>8 DEF MemoryInv, MemoryTypeOK

(* What the end of a turn leaves must be whole rounds, and nothing else.    *)
LEMMA EndOfTurn ==
    ASSUME MemoryInv, TurnEnds, history' \in Seq(Message), PairedTo(history', Len(history')),
           history' # <<>> => history'[1].role = "user"
    PROVE  MemoryInv'
<1>1. /\ turn' = NoTurn /\ prompt' = <<>> /\ prompt' \in Seq(Message)
      /\ turn'.pc = "idle"
  BY DEF TurnEnds, NoTurn
<1>2. turn' \in [pc : {"idle", "asking", "calling"}, round : 0 .. MaxRounds, anchor : Nat,
                calls : 0 .. MaxCalls, answered : 0 .. MaxCalls]
  BY <1>1, MemoryAssumption DEF NoTurn
<1>3. PairedTo(history, Len(history))'
  BY DEF PairedTo
<1>4. PromptIsRecentHistory'
  BY <1>1 DEF PromptIsRecentHistory
<1>. QED
  BY <1>1, <1>2, <1>3, <1>4 DEF MemoryInv, MemoryTypeOK

LEMMA NothingIsWhole == PairedTo(<<>>, Len(<<>>)) /\ <<>> \in Seq(Message)
<1>1. Len(<<>>) = 0 /\ <<>> \in Seq(Message)
  BY EmptySeq
<1>. QED
  BY <1>1 DEF PairedTo

(* The answer is added whole, or the echo recovery starts over.             *)
LEMMA ReplyIsWhole ==
    ASSUME MemoryInv, turn.pc # "idle", PairedTo(history, Len(history)), NEW r \in Replies
    PROVE  /\ AddAssistant(r) \in Seq(Message) /\ PairedTo(AddAssistant(r), Len(AddAssistant(r)))
           /\ AddAssistant(r) # <<>> => AddAssistant(r)[1].role = "user"
<1>. DEFINE m == Assistant(r, 0)
            said == Append(history, m)
<1>1. m \in Message /\ m.role = "assistant" /\ m.calls = 0
  <2>1. r \in Replies \cup {NoText} /\ 0 \in 0 .. MaxCalls
    BY MemoryAssumption
  <2>2. /\ Assistant(r, 0) \in Message
        /\ Assistant(r, 0).role = "assistant" /\ Assistant(r, 0).calls = 0
    BY <2>1, MessagesTyped, Zenon
  <2>. QED
    BY <2>2
<1>. HIDE DEF m
<1>2. history \in Seq(Message) /\ Len(history) \in Nat \ {0} /\ history[1].role = "user"
  <2>1. history \in Seq(Message) /\ turn.anchor \in 1 .. Len(history) /\ Len(history) \in Nat
    BY CallsTyped DEF MemoryInv, MemoryTypeOK, TurnInv
  <2>2. Len(history) # 0
    BY <2>1
  <2>3. history # <<>>
    BY <2>2, EmptySeq
  <2>. QED
    BY <2>1, <2>2, <2>3 DEF MemoryInv
<1>3. /\ said \in Seq(Message) /\ Len(said) = Len(history) + 1
      /\ \A i \in 1 .. Len(history) : said[i] = history[i]
  BY <1>1, <1>2, Appended
<1>4. PairedTo(said, Len(said))
  BY <1>1, <1>2, <1>3, PairedAppend
<1>5. said[1].role = "user"
  BY <1>2, <1>3
<1>6. AddAssistant(r) = <<>> \/ AddAssistant(r) = said
  BY DEF AddAssistant, m
<1>. HIDE DEF said
<1>. QED
  BY <1>3, <1>4, <1>5, <1>6, NothingIsWhole

(* What the rollback keeps is the conversation up to the utterance.         *)
LEMMA RollbackKeeps ==
    ASSUME MemoryInv, turn.pc # "idle"
    PROVE  /\ RollbackTo(turn.anchor) = SubSeq(history, 1, turn.anchor)
           /\ RollbackTo(turn.anchor) \in Seq(Message)
           /\ PairedTo(RollbackTo(turn.anchor), Len(RollbackTo(turn.anchor)))
           /\ RollbackTo(turn.anchor)[1].role = "user"
<1>1. /\ history \in Seq(Message) /\ Len(history) \in Nat /\ turn.anchor \in 1 .. Len(history)
      /\ PairedTo(history, turn.anchor)
  BY CallsTyped DEF MemoryInv, MemoryTypeOK, TurnInv
<1>. DEFINE a == turn.anchor
            kept == SubSeq(history, 1, a)
<1>2. RollbackTo(turn.anchor) = kept
  BY <1>1 DEF RollbackTo
<1>3. a \in 0 .. Len(history) /\ 1 \in 1 .. a
  BY <1>1
<1>. HIDE DEF a
<1>4. /\ kept \in Seq(Message) /\ Len(kept) = a /\ \A i \in 1 .. a : kept[i] = history[i]
  BY <1>1, <1>3, HeadTo
<1>. HIDE DEF kept
<1>5. PairedTo(kept, a)
  <2>1. PairedTo(history, a) /\ a <= Len(kept)
    BY <1>1, <1>3, <1>4 DEF a
  <2>. QED
    BY <1>1, <1>3, <1>4, <2>1, PairedSame
<1>6. history[1].role = "user"
  BY <1>1, EmptySeq DEF MemoryInv
<1>. QED
  BY <1>2, <1>3, <1>4, <1>5, <1>6 DEF kept, a

LEMMA TurnIsOver ==
    ASSUME MemoryInv, Replied \/ TemplateReply \/ IterationLimit \/ Abandoned
    PROVE  MemoryInv'
<1>1. CASE Replied
  <2>1. /\ TurnEnds /\ turn.pc # "idle" /\ PairedTo(history, Len(history)) /\ history \in Seq(Message)
        /\ history # <<>> => history[1].role = "user"
    BY <1>1 DEF Replied, MemoryInv, MemoryTypeOK
  <2>2. CASE history' = history
    BY <2>1, <2>2, EndOfTurn
  <2>3. CASE \E r \in Replies : history' = AddAssistant(r)
    BY <2>1, <2>3, ReplyIsWhole, EndOfTurn
  <2>. QED
    BY <1>1, <2>2, <2>3 DEF Replied
<1>2. CASE TemplateReply
  <2>1. TurnEnds /\ turn.pc # "idle" /\ PairedTo(history, Len(history))
    BY <1>2, RoundIsWhole DEF TemplateReply, RoundAnswered
  <2>2. PICK r \in Replies : history' = AddAssistant(r)
    BY <1>2 DEF TemplateReply
  <2>. QED
    BY <2>1, <2>2, ReplyIsWhole, EndOfTurn
<1>3. CASE IterationLimit \/ Abandoned
  <2>1. TurnEnds /\ turn.pc # "idle" /\ history' = RollbackTo(turn.anchor)
    BY <1>3 DEF IterationLimit, Abandoned, RoundAnswered
  <2>. QED
    BY <2>1, RollbackKeeps, EndOfTurn
<1>. QED
  BY <1>1, <1>2, <1>3

(* What the trimming leaves of a history that ends with an utterance: all   *)
(* from some utterance on, as much as fits, but at least the last.          *)
LEMMA TrimmedIsRecent ==
    ASSUME NEW s \in Seq(Message), Len(s) > 0, s[1].role = "user", s[Len(s)].role = "user"
    PROVE  \E first \in 1 .. Len(s) :
              /\ Trimmed(s) = From(s, first) /\ s[first].role = "user"
              /\ \A i \in Utterances(s) : i < first => ~(Tokens(From(s, i)) <= Budget)
              /\ first < Len(s) => Tokens(From(s, first)) <= Budget
<1>. DEFINE starts == Utterances(s)
            fit == {i \in starts : Tokens(From(s, i)) <= Budget}
            last == Len(s)
<1>1. /\ starts \in SUBSET Nat /\ 1 \in starts /\ last \in starts /\ fit \in SUBSET Nat
      /\ \A i \in starts : i \in 1 .. last /\ s[i].role = "user"
      /\ last \in Nat
  BY CallsTyped DEF Utterances
<1>2. Trimmed(s) = (IF Min(starts) \in fit THEN s
                    ELSE From(s, IF fit = {} THEN Max(starts) ELSE Min(fit)))
  BY DEF Trimmed
<1>3. Max(starts) = last
  <2>1. \A i \in starts : i <= last
    BY <1>1
  <2>. HIDE DEF starts, last
  <2>. QED
    BY <1>1, <2>1, MaxIs
<1>4. \A i \in fit : i \in starts /\ Tokens(From(s, i)) <= Budget
  OBVIOUS
<1>5. \A i \in starts : Tokens(From(s, i)) <= Budget => i \in fit
  OBVIOUS
<1>. HIDE DEF starts, fit
<1>6. Min(starts) = 1
  <2>1. Min(starts) \in starts /\ Min(starts) <= 1
    BY <1>1, MinIsLeast
  <2>2. Min(starts) \in 1 .. last
    BY <1>1, <2>1
  <2>. HIDE DEF last
  <2>. QED
    BY <1>1, <2>1, <2>2
<1>7. CASE 1 \in fit
  <2>1. Trimmed(s) = From(s, 1)
    BY <1>2, <1>6, <1>7, SubSeqFull DEF From
  <2>2. \A i \in starts : ~(i < 1)
    BY <1>1
  <2>. QED
    BY <1>1, <1>4, <1>7, <2>1, <2>2 DEF starts
<1>8. CASE fit = {}
  <2>1. Trimmed(s) = From(s, last)
    BY <1>2, <1>3, <1>6, <1>8
  <2>2. \A i \in starts : ~(Tokens(From(s, i)) <= Budget)
    BY <1>5, <1>8
  <2>3. ~(last < last)
    BY <1>1
  <2>. QED
    BY <1>1, <2>1, <2>2, <2>3 DEF starts
<1>9. CASE 1 \notin fit /\ fit # {}
  <2>1. Trimmed(s) = From(s, Min(fit))
    BY <1>2, <1>6, <1>9
  <2>2. Min(fit) \in fit /\ \A i \in fit : Min(fit) <= i
    BY <1>1, <1>9, MinIsLeast
  <2>3. \A i \in starts : i < Min(fit) => i \notin fit
    <3>1. Min(fit) \in Nat /\ \A i \in fit : i \in Nat
      BY <1>1, <2>2
    <3>2. \A i \in fit : ~(i < Min(fit))
      BY <2>2, <3>1
    <3>. QED
      BY <3>2
  <2>. QED
    BY <1>1, <1>4, <1>5, <2>1, <2>2, <2>3 DEF starts
<1>. QED
  BY <1>7, <1>8, <1>9

LEMMA UtteranceBegins ==
    ASSUME MemoryInv, TurnBegins
    PROVE  MemoryInv'
<1>1. PICK n \in Sizes : history' = Append(history, User(n))
  BY DEF TurnBegins
<1>. DEFINE s == history'
            a == Len(s)
<1>2. User(n) \in Message /\ User(n).role = "user" /\ User(n).calls = 0
  BY <1>1, MessagesTyped
<1>3. /\ history \in Seq(Message) /\ turn.pc = "idle" /\ PairedTo(history, Len(history))
      /\ history # <<>> => history[1].role = "user"
      /\ Len(history) \in Nat
      /\ prompt' = Trimmed(s)
      /\ turn' = [pc |-> "asking", round |-> 1, anchor |-> a, calls |-> 0, answered |-> 0]
  BY CallsTyped DEF MemoryInv, MemoryTypeOK, TurnBegins
<1>4. /\ s \in Seq(Message) /\ a = Len(history) + 1 /\ s # <<>> /\ s[a] = User(n)
      /\ \A i \in 1 .. Len(history) : s[i] = history[i]
  BY <1>1, <1>2, <1>3, Appended
<1>5. PairedTo(s, a)
  BY <1>1, <1>2, <1>3, <1>4, PairedAppend
<1>6. s[1].role = "user"
  <2>1. CASE Len(history) = 0
    BY <1>2, <1>4, <2>1
  <2>2. CASE Len(history) # 0
    <3>1. 1 \in 1 .. Len(history) /\ history # <<>>
      BY <1>3, <2>2, EmptySeq
    <3>. QED
      BY <1>3, <1>4, <3>1
  <2>. QED
    BY <2>1, <2>2
<1>7. a \in Nat \ {0}
  BY <1>3, <1>4
<1>8. turn' \in [pc : {"idle", "asking", "calling"}, round : 0 .. MaxRounds, anchor : Nat,
                calls : 0 .. MaxCalls, answered : 0 .. MaxCalls]
  BY <1>3, <1>7, MemoryAssumption
<1>. HIDE DEF s, a
<1>9. /\ turn'.pc = "asking" /\ turn'.anchor = a /\ history' = s /\ a = Len(s)
  BY <1>3 DEF s, a
<1>10. TurnInv'
  <2>1. \A i \in a + 1 .. a : FALSE
    BY <1>7
  <2>2. a \in 1 .. a
    BY <1>7
  <2>3. PairedTo(history, turn.anchor)' <=> PairedTo(s, a)
    BY <1>9 DEF PairedTo
  <2>. QED
    BY <1>2, <1>4, <1>5, <1>9, <2>1, <2>2, <2>3 DEF TurnInv
<1>11. PICK first \in 1 .. a :
          /\ Trimmed(s) = From(s, first) /\ s[first].role = "user"
          /\ \A i \in Utterances(s) : i < first => ~(Tokens(From(s, i)) <= Budget)
          /\ first < a => Tokens(From(s, first)) <= Budget
  BY <1>2, <1>4, <1>6, <1>7, <1>9, TrimmedIsRecent
<1>12. prompt' = From(s, first) /\ prompt' \in Seq(Message) /\ Len(prompt') = a - first + 1
  BY <1>3, <1>4, <1>9, <1>11, TailFrom
<1>13. Len(history') - Len(prompt') + 1 = first
  BY <1>7, <1>9, <1>12
<1>14. \A i : Fits(i, turn.anchor)' <=> Tokens(From(s, i)) <= Budget
  BY <1>9 DEF Fits, From
<1>15. PromptIsRecentHistory'
  BY <1>9, <1>11, <1>12, <1>13, <1>14 DEF PromptIsRecentHistory
<1>16. PairedTo(history, Len(history))'
  BY <1>5, <1>9 DEF PairedTo
<1>. QED
  BY <1>4, <1>6, <1>8, <1>9, <1>10, <1>12, <1>15, <1>16 DEF MemoryInv, MemoryTypeOK

LEMMA ClearedIsWhole ==
    ASSUME MemoryInv, Cleared, ~MidTurnClears
    PROVE  MemoryInv'
<1>1. /\ turn.pc = "idle" /\ history' = <<>> /\ prompt' = prompt /\ turn' = turn
  BY DEF Cleared
<1>2. PairedTo(history', Len(history')) /\ history' \in Seq(Message)
  BY <1>1, NothingIsWhole
<1>3. PairedTo(history, Len(history))'
  BY <1>2 DEF PairedTo
<1>4. PromptIsRecentHistory'
  BY <1>1 DEF PromptIsRecentHistory
<1>. QED
  BY <1>1, <1>2, <1>3, <1>4 DEF MemoryInv, MemoryTypeOK

(* The invariant, as long as nobody clears the history under a turn.        *)
LEMMA MemoryInvIsInductive ==
    ASSUME ~MidTurnClears
    PROVE  /\ MemoryInit => MemoryInv
           /\ MemoryInv /\ [MemoryNext]_memoryVars => MemoryInv'
<1>1. MemoryInit => MemoryInv
  <2>. SUFFICES ASSUME MemoryInit PROVE MemoryInv
    OBVIOUS
  <2>1. turn.pc = "idle" /\ history = <<>>
    BY DEF MemoryInit, NoTurn
  <2>2. MemoryTypeOK
    BY NothingIsWhole, MemoryAssumption DEF MemoryTypeOK, MemoryInit, NoTurn
  <2>. QED
    BY <2>1, <2>2, NothingIsWhole DEF MemoryInv, PromptIsRecentHistory
<1>2. MemoryInv /\ UNCHANGED memoryVars => MemoryInv'
  <2>. SUFFICES ASSUME MemoryInv, UNCHANGED memoryVars PROVE MemoryInv'
    OBVIOUS
  <2>1. history' = history /\ prompt' = prompt /\ turn' = turn
    BY DEF memoryVars
  <2>. QED
    BY <2>1 DEF MemoryInv, MemoryTypeOK, TurnInv, RoundInv, PairedTo, Caller,
                PromptIsRecentHistory, Fits, Utterances, From
<1>3. MemoryInv /\ MemoryNext => MemoryInv'
  BY UtteranceBegins, TurnIsOver, SinkCalls, SinkTool, RoundGoesOn, ClearedIsWhole DEF MemoryNext
<1>. QED
  BY <1>1, <1>2, <1>3

-----------------------------------------------------------------------------
(* Whatever was trimmed, rolled back or recovered from before, a request is *)
(* well-formed: every call has its results and no result stands alone.      *)
THEOREM PromptsAreValid ==
    ASSUME ~MidTurnClears
    PROVE  MemorySpec => []PromptIsValid
<1>1. MemoryInv => PromptIsValid
  <2>. SUFFICES ASSUME MemoryInv, turn.pc = "asking" PROVE Valid(prompt)
    BY DEF PromptIsValid
  <2>. DEFINE first == Len(history) - Len(prompt) + 1
  <2>1. /\ history \in Seq(Message) /\ turn.anchor \in 1 .. Len(history) /\ Len(history) \in Nat
        /\ first \in 1 .. turn.anchor /\ prompt = From(history, first)
        /\ history[first].role = "user" /\ PairedTo(history, Len(history))
    BY CallsTyped DEF MemoryInv, MemoryTypeOK, TurnInv, PromptIsRecentHistory
  <2>. HIDE DEF first
  <2>2. first \in 1 .. Len(history)
    BY <2>1
  <2>. QED
    BY <2>1, <2>2, PairedFrom
<1>. QED
  BY <1>1, MemoryInvIsInductive, PTL DEF MemorySpec

(* The request is the recent conversation: as much of it as fits, from an   *)
(* utterance on, and always the utterance being answered.                   *)
THEOREM PromptsAreRecent ==
    ASSUME ~MidTurnClears
    PROVE  MemorySpec => []PromptIsRecentHistory
<1>1. MemoryInv => PromptIsRecentHistory
  BY DEF MemoryInv
<1>. QED
  BY <1>1, MemoryInvIsInductive, PTL DEF MemorySpec

(* Answered, cancelled, failed, timed out or out of rounds: a turn's end    *)
(* costs nothing of the conversation before it.                             *)
THEOREM ConversationSurvives ==
    ASSUME ~MidTurnClears
    PROVE  MemorySpec => EarlierTurnsSurvive
<1>1. MemoryInv /\ [MemoryNext]_memoryVars =>
        [turn.pc # "idle" /\ turn'.pc = "idle" /\ Utterances(history) # {}
           => \/ history' = <<>> /\ \E r \in Replies : Echoes(Append(history, Assistant(r, 0)))
              \/ IsPrefix(SubSeq(history, 1, Max(Utterances(history))), history')]_memoryVars
  <2>. SUFFICES ASSUME MemoryInv, MemoryNext, turn.pc # "idle", turn'.pc = "idle"
                PROVE  \/ history' = <<>> /\ \E r \in Replies : Echoes(Append(history, Assistant(r, 0)))
                       \/ IsPrefix(SubSeq(history, 1, Max(Utterances(history))), history')
    BY DEF memoryVars
  <2>. DEFINE a == turn.anchor
              kept == SubSeq(history, 1, a)
  <2>1. /\ history \in Seq(Message) /\ Len(history) \in Nat /\ a \in 1 .. Len(history)
        /\ history[a].role = "user" /\ \A i \in a + 1 .. Len(history) : history[i].role # "user"
    BY CallsTyped DEF MemoryInv, MemoryTypeOK, TurnInv
  <2>2. Max(Utterances(history)) = a
    <3>1. /\ Utterances(history) \in SUBSET Nat /\ a \in Utterances(history)
          /\ \A i \in Utterances(history) : i \in 1 .. Len(history) /\ history[i].role = "user"
      BY <2>1, CallsTyped DEF Utterances
    <3>2. \A i \in Utterances(history) : i <= a
      BY <2>1, <3>1
    <3>. HIDE DEF a
    <3>. QED
      BY <3>1, <3>2, MaxIs
  <2>3. /\ kept \in Seq(Message) /\ Len(kept) = a
        /\ \A i \in 1 .. a : kept[i] = history[i]
    <3>1. a \in 0 .. Len(history)
      BY <2>1
    <3>. HIDE DEF a
    <3>. QED
      BY <2>1, <3>1, HeadTo
  <2>. HIDE DEF a, kept
  <2>4. ASSUME NEW u \in Seq(Message), a <= Len(u), \A i \in 1 .. a : u[i] = history[i]
        PROVE  IsPrefix(kept, u)
    <3>1. a \in 0 .. Len(history) /\ 1 \in Nat \ {0}
      BY <2>1
    <3>2. SubSeq(u, 1, a) = SubSeq(history, 1, a)
      BY <2>1, <2>4, <3>1, MiddleSame
    <3>3. SubSeq(kept, 1, a) = kept
      BY <2>3, SubSeqFull
    <3>. QED
      BY <2>3, <2>4, <3>2, <3>3 DEF IsPrefix, kept
  <2>5. ASSUME NEW r \in Replies, history' = AddAssistant(r)
        PROVE  \/ history' = <<>> /\ \E q \in Replies : Echoes(Append(history, Assistant(q, 0)))
               \/ IsPrefix(kept, history')
    <3>1. CASE Echoes(Append(history, Assistant(r, 0)))
      BY <2>5, <3>1 DEF AddAssistant
    <3>2. CASE ~Echoes(Append(history, Assistant(r, 0)))
      <4>1. r \in Replies \cup {NoText} /\ 0 \in 0 .. MaxCalls
        BY MemoryAssumption
      <4>2. Assistant(r, 0) \in Message
        BY <4>1, MessagesTyped, Zenon
      <4>3. history' = Append(history, Assistant(r, 0))
        BY <2>5, <3>2 DEF AddAssistant
      <4>4. /\ history' \in Seq(Message) /\ Len(history') = Len(history) + 1
            /\ \A i \in 1 .. Len(history) : history'[i] = history[i]
        BY <2>1, <4>2, <4>3, Appended
      <4>5. a <= Len(history') /\ \A i \in 1 .. a : history'[i] = history[i]
        BY <2>1, <4>4
      <4>. QED
        BY <2>4, <4>4, <4>5
    <3>. QED
      BY <3>1, <3>2
  <2>6. CASE history' = history
    <3>1. a <= Len(history)
      BY <2>1
    <3>. QED
      BY <2>1, <2>2, <2>4, <2>6, <3>1 DEF kept
  <2>7. CASE history' = RollbackTo(a)
    <3>1. history' = kept
      BY <2>7, RollbackKeeps DEF a, kept
    <3>2. a <= Len(kept)
      BY <2>1, <2>3
    <3>. QED
      BY <2>2, <2>3, <2>4, <3>1, <3>2 DEF kept
  <2>8. (\E r \in Replies : history' = AddAssistant(r)) \/ history' = history \/ history' = RollbackTo(a)
    <3>1. ~TurnBegins
      BY DEF TurnBegins
    <3>2. ~CallsTools /\ ~ToolAnswers /\ ~NextRound
      BY DEF MemoryInv, MemoryTypeOK, CallsTools, ToolAnswers, NextRound
    <3>3. ~Cleared
      BY DEF Cleared
    <3>. QED
      BY <3>1, <3>2, <3>3 DEF MemoryNext, Replied, TemplateReply, IterationLimit, Abandoned, a
  <2>. QED
    BY <2>2, <2>5, <2>6, <2>7, <2>8 DEF kept
<1>. QED
  BY <1>1, MemoryInvIsInductive, PTL DEF MemorySpec, EarlierTurnsSurvive

(***************************************************************************)
(* AgentTurns                                                              *)
(***************************************************************************)
USE AgentAssumption

-----------------------------------------------------------------------------
(* What the helpers return. *)
LEMMA ConstantsTyped ==
    /\ Ready \in Disp /\ FreshServer \in Server /\ Stopped \in Audio
BY DEF Ready, Disp, FreshServer, Server, Stopped, Audio, Events, AsrEvents, TtsEvents

LEMMA AudioTyped == audio \in Audio => Rearmed \in Audio /\ Played \in Audio
BY DEF Rearmed, Played, PlayedRegardless, Audio

LEMMA DisarmedTyped ==
    ASSUME think \in Think, NEW armed \in BOOLEAN
    PROVE  Disarmed(armed) \in Think
BY DEF Disarmed, Think

LEMMA ServerTyped ==
    ASSUME server \in Server, NEW keep \in BOOLEAN
    PROVE  Aborted(keep) \in Server /\ EosTaken \in Server
BY DEF Aborted, EosTaken, Server

LEMMA SendsTyped ==
    ASSUME server \in Server, NEW s \in Server, Sends(s)
    PROVE  server' \in Server /\ conn' \in {"up", "deaf", "dead"}
BY DEF Sends

LEMMA SpendTyped ==
    ASSUME TypeOK, NEW kind \in Disturbances \cup {"turn", "segment"}, Spend(kind)
    PROVE  budget' \in [Disturbances \cup {"turn", "segment"} -> Nat]
BY DEF TypeOK, Spend

LEMMA CancelTyped == llm \in Llm /\ LlmCancel => llm' \in Llm
BY DEF Llm, LlmCancel

LEMMA TakesTyped ==
    ASSUME TypeOK, NEW kinds, Takes(kinds)
    PROVE  rx' \in Seq(Events) /\ Head(rx) \in Events
BY DEF TypeOK, Takes

LEMMA EmitsTyped ==
    ASSUME TypeOK, NEW kind \in Events, Emits(kind)
    PROVE  rx' \in Seq(Events)
BY DEF TypeOK, Emits

-----------------------------------------------------------------------------
LEMMA InitTyped == Init => TypeOK
<1>. SUFFICES ASSUME Init PROVE TypeOK
  OBVIOUS
<1>1. budget \in [Disturbances \cup {"turn", "segment"} -> Nat]
  <2>1. deployment.turns \in Nat /\ deployment.segments \in Nat /\ MaxDisturb \in Nat
    BY DEF Init
  <2>. DEFINE b(d) == CASE d = "turn" -> deployment.turns
                        [] d = "segment" -> deployment.segments
                        [] d \in deployment.disturb -> MaxDisturb
                        [] OTHER -> 0
  <2>2. budget = [d \in Disturbances \cup {"turn", "segment"} |-> b(d)]
    BY DEF Init
  <2>3. \A d \in Disturbances \cup {"turn", "segment"} : b(d) \in Nat
    BY <2>1
  <2>. HIDE DEF b
  <2>. QED
    BY <2>2, <2>3
<1>2. rx \in Seq(Events) /\ mic \in Mic /\ llm \in Llm /\ sleeper \in Sleeper
  BY DEF Init, Mic, Llm, Sleeper
<1>3. audio \in Audio /\ think \in Think
  BY DEF Init, Audio, Think
<1>. QED
  BY <1>1, <1>2, <1>3, ConstantsTyped DEF Init, TypeOK, ConvState

LEMMA StepTyped == TypeOK /\ [Next]_vars => TypeOK'
<1>. SUFFICES ASSUME TypeOK, [Next]_vars PROVE TypeOK'
  OBVIOUS
<1>. USE ConstantsTyped, AudioTyped, CancelTyped
<1>1. CASE LlmToken
  <2>1. llm' \in Llm
    BY <1>1 DEF TypeOK, LlmToken, Llm
  <2>. QED
    BY <1>1, <2>1 DEF TypeOK, LlmToken, frame, turnVars, watchVars
<1>2. CASE LlmTokenSent
  <2>1. llm' \in Llm
    BY <1>2 DEF TypeOK, LlmTokenSent, Llm
  <2>2. [server EXCEPT !.text = @ \cup {llm.turn}] \in Server
    BY DEF TypeOK, Llm, Server
  <2>3. server' \in Server /\ conn' \in {"up", "deaf", "dead"}
    BY <1>2, <2>2, SendsTyped DEF TypeOK, LlmTokenSent
  <2>. QED
    BY <1>2, <2>1, <2>3 DEF TypeOK, LlmTokenSent, ReplyTextGoes, frame, watchVars
<1>3. CASE LlmFails
  <2>1. llm' \in Llm
    BY <1>3 DEF TypeOK, LlmFails, DropsReply, Llm
  <2>2. server' \in Server /\ conn' \in {"up", "broken", "deaf", "dead", "opening"}
    BY <1>3, ServerTyped, SendsTyped DEF TypeOK, LlmFails, DropsReply
  <2>. QED
    BY ZenonT(60), <1>3, <2>1, <2>2, SpendTyped
       DEF TypeOK, ConvState, Disturbances, LlmFails, DropsReply, turnVars, watchVars
<1>4. CASE LlmFlush
  <2>1. llm' \in Llm
    BY <1>4 DEF TypeOK, LlmFlush, LlmEnds, Llm
  <2>2. server' \in Server /\ conn' \in {"up", "broken", "deaf", "dead", "opening"}
    BY <1>4, ServerTyped, SendsTyped DEF TypeOK, LlmFlush, LlmEnds, ReplyTextGoes,
       frame, Server
  <2>. QED
    BY <1>4, <2>1, <2>2
       DEF TypeOK, ConvState, LlmFlush, LlmEnds, ReplyTextGoes, frame, watchVars
<1>5. CASE LlmFlushWaits
  <2>1. llm' \in Llm
    BY <1>5 DEF TypeOK, LlmFlushWaits, Llm
  <2>. QED
    BY ZenonT(60), <1>5, <2>1
       DEF TypeOK, ConvState, LlmFlushWaits, ReplyTextGoes, frame, watchVars
<1>6. CASE LlmCancelled
  <2>1. llm' \in Llm
    BY <1>6 DEF TypeOK, LlmCancelled, LlmEnds, DropsReply, Llm
  <2>2. server' \in Server /\ conn' \in {"up", "broken", "deaf", "dead", "opening"}
    BY <1>6, ServerTyped, SendsTyped DEF TypeOK, LlmCancelled, LlmEnds, DropsReply, frame
  <2>. QED
    BY <1>6, <2>1, <2>2
       DEF TypeOK, ConvState, LlmCancelled, LlmEnds, DropsReply, frame, turnVars,
           watchVars
<1>7. CASE LlmFailed
  <2>1. llm' \in Llm
    BY <1>7 DEF TypeOK, LlmFailed, LlmEnds, Llm
  <2>. QED
    BY <1>7, <2>1
       DEF TypeOK, ConvState, LlmFailed, LlmEnds, frame, turnVars, watchVars
<1>8. CASE DispDrops
  BY <1>8, TakesTyped
     DEF TypeOK, ConvState, DispDrops, frame, turnVars, watchVars, Takes
<1>9. CASE OnTtsStarted
  <2>1. think' \in Think
    <3>1. CancelThinking \in Think
      BY DisarmedTyped DEF TypeOK, CancelThinking
    <3>2. (think.armed \/ think.told) \in BOOLEAN
      OBVIOUS
    <3>3. think' = [CancelThinking EXCEPT !.told = think.armed \/ think.told]
      BY <1>9 DEF OnTtsStarted
    <3>. QED
      BY <3>1, <3>2, <3>3 DEF Think
  <2>. QED
    BY <1>9, <2>1, TakesTyped
       DEF TypeOK, OnTtsStarted, frame, ConnAfterCut, turnVars, Takes
<1>10. CASE OnTtsAudio
  <2>1. disp' \in Disp
    BY <1>10, TakesTyped DEF TypeOK, OnTtsAudio, Takes, Disp, Events, AsrEvents, TtsEvents
  <2>2. fsm' \in ConvState /\ firstSeen' \in BOOLEAN
    <3>1. fsm' \in {fsm, "SPEAKING"} /\ (firstSeen' = firstSeen \/ firstSeen' = TRUE)
      BY <1>10 DEF OnTtsAudio
    <3>. QED
      BY <3>1 DEF TypeOK, ConvState
  <2>. QED
    BY <1>10, <2>1, <2>2, TakesTyped DEF TypeOK, OnTtsAudio, frame, watchVars, Takes
<1>11. CASE FramePlays
  BY <1>11
     DEF TypeOK, ConvState, FramePlays, frame, turnVars, watchVars
<1>12. CASE OnTtsDone
  <2>1. think' \in Think
    BY <1>12, DisarmedTyped DEF TypeOK, OnTtsDone, CancelThinking
  <2>2. audio' \in Audio /\ disp' \in Disp
    BY <1>12 DEF TypeOK, OnTtsDone, Audio, Disp
  <2>. QED
    BY <1>12, <2>1, <2>2, TakesTyped
       DEF TypeOK, ConvState, OnTtsDone, ConnAfterCut, Takes, frame
<1>13. CASE TurnCompletes
  BY ZenonT(30), <1>13
     DEF TypeOK, ConvState, TurnCompletes, frame, watchVars
<1>14. CASE PartialBargesIn
  <2>1. disp' \in Disp
    BY <1>14, TakesTyped DEF TypeOK, PartialBargesIn, Takes, Disp, Llm, Events,
       AsrEvents, TtsEvents
  <2>. QED
    BY <1>14, <2>1, TakesTyped
       DEF TypeOK, ConvState, PartialBargesIn, frame, turnVars, watchVars, Takes
<1>15. CASE PartialShown
  BY <1>15, TakesTyped
     DEF TypeOK, ConvState, PartialShown, frame, turnVars, watchVars, Takes
<1>16. CASE OnSegment
  BY ZenonT(60), <1>16, TakesTyped
     DEF TypeOK, ConvState, OnSegment, frame, Takes, Events, AsrEvents, TtsEvents
<1>17. CASE OnUtterance
  <2>1. mic' \in Mic
    BY <1>17 DEF TypeOK, OnUtterance, Takes, Mic, Llm
  <2>2. disp' \in Disp
    <3>. disp \in Disp /\ llm.turn \in Nat /\ Head(rx) \in Events
      BY <1>17, TakesTyped DEF OnUtterance, TypeOK, Llm
    <3>1. CASE IsPlaying
      BY <1>17, <3>1 DEF OnUtterance, Disp
    <3>2. CASE ~IsPlaying
      BY <1>17, <3>2 DEF OnUtterance, Disp
    <3>. QED
      BY <3>1, <3>2
  <2>. QED
    BY ZenonT(60), <1>17, <2>1, <2>2, TakesTyped
       DEF TypeOK, ConvState, OnUtterance, frame, Takes
<1>18. CASE OnLowSignal
  BY <1>18, TakesTyped
     DEF TypeOK, ConvState, OnLowSignal, frame, Takes
<1>19. CASE UtteranceGoes
  <2>1. disp' \in Disp
    BY <1>19 DEF TypeOK, UtteranceGoes, Disp, Llm, Events, AsrEvents, TtsEvents
  <2>. QED
    BY <1>19, <2>1
       DEF TypeOK, ConvState, UtteranceGoes, frame, watchVars
<1>20. CASE StopIntent
  BY <1>20, ServerTyped, SendsTyped
     DEF TypeOK, ConvState, StopIntent, frame, turnVars, watchVars
<1>21. CASE TurnStarts
  <2>1. llm' \in Llm
    BY <1>21 DEF TypeOK, TurnStarts, Llm
  <2>. QED
    BY <1>21, <2>1, DisarmedTyped
       DEF TypeOK, ConvState, TurnStarts, ArmThinking, ConnAfterCut, frame, turnVars
<1>22. CASE OnError
  <2>1. disp' \in Disp
    BY <1>22, TakesTyped DEF TypeOK, OnError, Takes, Disp, Llm, Events, AsrEvents,
       TtsEvents
  <2>. QED
    BY <1>22, <2>1, DisarmedTyped, TakesTyped
       DEF TypeOK, ConvState, OnError, frame, CancelThinking, ConnAfterCut, Takes
<1>23. CASE ErrorCancels
  <2>1. disp' \in Disp
    BY <1>23 DEF TypeOK, ErrorCancels, Disp, Llm, Events, AsrEvents, TtsEvents
  <2>. QED
    BY <1>23, <2>1 DEF TypeOK, ErrorCancels, frame, turnVars, watchVars
<1>24. CASE ErrorHandled
  BY <1>24
     DEF TypeOK, ConvState, ErrorHandled, frame, turnVars, watchVars
<1>25. CASE DispReconnects
  <2>1. disp' \in Disp
    BY <1>25 DEF TypeOK, DispReconnects, Disp
  <2>. QED
    BY <1>25, <2>1
       DEF TypeOK, ConvState, DispReconnects, frame, turnVars, watchVars
<1>26. CASE DispReconnected
  BY <1>26
     DEF TypeOK, ConvState, DispReconnected, Unbound, frame
<1>27. CASE DispStops
  <2>1. disp' \in Disp
    BY <1>27 DEF TypeOK, DispStops, StopsReply, Disp, Events, AsrEvents, TtsEvents
  <2>2. server' \in Server /\ conn' \in {"up", "broken", "deaf", "dead", "opening"}
    BY <1>27, ServerTyped, SendsTyped DEF TypeOK, DispStops, StopsReply, frame
  <2>. QED
    BY <1>27, <2>1, <2>2
       DEF TypeOK, ConvState, DispStops, StopsReply, frame, turnVars, watchVars
<1>28. CASE DispResets
  <2>1. mic' \in Mic
    BY <1>28 DEF TypeOK, DispResets, FallbackArmed, Mic
  <2>2. disp' \in Disp
    BY <1>28 DEF TypeOK, DispResets, FallbackArmed, Disp
  <2>. QED
    BY <1>28, <2>1, <2>2
       DEF TypeOK, ConvState, DispResets, InterruptResets, FallbackArmed, frame
<1>29. CASE MicStops
  <2>1. mic' \in Mic
    BY <1>29 DEF TypeOK, MicStops, Mic
  <2>2. server' \in Server /\ conn' \in {"up", "broken", "deaf", "dead", "opening"}
    BY <1>29, ServerTyped, SendsTyped DEF TypeOK, MicStops, StopsReply
  <2>. QED
    BY <1>29, <2>1, <2>2 DEF TypeOK, MicStops, StopsReply, frame, turnVars, watchVars
<1>30. CASE MicResets
  <2>1. mic' \in Mic
    BY <1>30 DEF TypeOK, MicResets, FallbackArmed, Mic
  <2>. QED
    BY <1>30, <2>1
       DEF TypeOK, ConvState, MicResets, InterruptResets, FallbackArmed, frame
<1>31. CASE MicBargesIn
  <2>1. mic' \in Mic
    BY <1>31 DEF TypeOK, MicBargesIn, SpeechStarts, Mic, Llm
  <2>. QED
    BY <1>31, <2>1, SpendTyped
       DEF TypeOK, ConvState, MicBargesIn, SpeechStarts, Disturbances
<1>32. CASE MicHearsEcho
  <2>1. mic' \in Mic
    BY <1>32 DEF TypeOK, MicHearsEcho, SpeechStarts, Mic
  <2>. QED
    BY <1>32, <2>1, SpendTyped
       DEF TypeOK, ConvState, MicHearsEcho, SpeechStarts, Disturbances
<1>33. CASE MicListens
  <2>1. mic' \in Mic
    BY <1>33 DEF TypeOK, MicListens, SpeechStarts, Mic
  <2>. QED
    BY <1>33, <2>1, SpendTyped
       DEF TypeOK, ConvState, MicListens, SpeechStarts, Disturbances
<1>34. CASE SpeechEnds
  <2>1. mic' \in Mic
    BY <1>34 DEF TypeOK, SpeechEnds, Mic
  <2>. QED
    BY <1>34, <2>1
       DEF TypeOK, ConvState, SpeechEnds, frame, turnVars, watchVars
<1>35. CASE MicSendsEos
  <2>1. mic' \in Mic
    BY <1>35 DEF TypeOK, MicSendsEos, Mic
  <2>. QED
    BY <1>35, <2>1, DisarmedTyped, ServerTyped, SendsTyped
       DEF TypeOK, ConvState, MicSendsEos, ConnAfterCut, ArmThinking, frame
<1>36. CASE UserSpeaks
  <2>1. server' \in Server
    BY <1>36 DEF TypeOK, UserSpeaks, Server
  <2>. QED
    BY <1>36, <2>1
       DEF TypeOK, ConvState, UserSpeaks, frame, turnVars, watchVars
<1>37. CASE AudioReconnects
  BY <1>37
     DEF TypeOK, ConvState, AudioReconnects, Unbound, frame, turnVars
<1>38. CASE Plays
  <2>1. audio' \in Audio
    BY <1>38 DEF TypeOK, Plays, Audio
  <2>. QED
    BY <1>38, <2>1
       DEF TypeOK, ConvState, Plays, frame, turnVars, watchVars
<1>39. CASE AsrWatchFires
  BY ZenonT(60), <1>39
     DEF TypeOK, ConvState, AsrWatchFires, frame
<1>40. CASE ThinkFires
  <2>1. think' \in Think
    <3>. think \in Think /\ llm.turn \in Nat
      BY DEF TypeOK, Llm
    <3>1. CASE fsm = "THINKING"
      <4>. think' = [armed |-> FALSE, told |-> FALSE, pc |-> "cancelling", own |-> TRUE,
                        turn |-> llm.turn]
        BY <1>40, <3>1 DEF ThinkFires
      <4>. QED
        BY DEF Think
    <3>2. CASE fsm # "THINKING"
      BY <1>40, <3>2 DEF ThinkFires, Think
    <3>. QED
      BY <3>1, <3>2
  <2>. QED
    BY <1>40, <2>1
       DEF TypeOK, ConvState, ThinkFires, frame, turnVars
<1>41. CASE ThinkReconnects
  <2>1. think' \in Think
    BY <1>41 DEF TypeOK, ThinkReconnects, Think
  <2>. QED
    BY <1>41, <2>1
       DEF TypeOK, ConvState, ThinkReconnects, frame, turnVars
<1>42. CASE ThinkResets
  <2>1. think' \in Think
    BY <1>42 DEF TypeOK, ThinkResets, Unbound, Think
  <2>. QED
    BY <1>42, <2>1
       DEF TypeOK, ConvState, ThinkResets, Unbound, frame
<1>43. CASE FallbackFires
  <2>1. server' \in Server /\ conn' \in {"up", "broken", "deaf", "dead", "opening"}
    BY <1>43, ServerTyped, SendsTyped DEF TypeOK, FallbackFires, frame
  <2>. QED
    BY <1>43, <2>1
       DEF TypeOK, ConvState, FallbackFires, frame
<1>44. CASE FallbackSent
  BY <1>44, DisarmedTyped
     DEF TypeOK, ConvState, FallbackSent, ArmThinking, ConnAfterCut, frame, turnVars
<1>45. CASE SleepBegins
  <2>1. sleeper' \in Sleeper
    BY <1>45 DEF TypeOK, SleepBegins, Sleeper, Llm
  <2>. QED
    BY <1>45, <2>1, SpendTyped
       DEF TypeOK, ConvState, SleepBegins, turnVars, watchVars, Disturbances
<1>46. CASE SleepAborts
  <2>1. sleeper' \in Sleeper
    BY <1>46 DEF TypeOK, SleepAborts, Sleeper
  <2>. QED
    BY ZenonT(60), <1>46, <2>1, ServerTyped, SendsTyped
       DEF TypeOK, ConvState, SleepAborts, frame, turnVars, watchVars
<1>47. CASE SleepEnds
  <2>1. sleeper' \in Sleeper
    BY <1>47 DEF TypeOK, SleepEnds, Sleeper
  <2>. QED
    BY <1>47, <2>1
       DEF TypeOK, ConvState, SleepEnds, frame, watchVars
<1>48. CASE Wake
  BY <1>48
     DEF TypeOK, ConvState, Wake, frame, turnVars, watchVars
<1>49. CASE ServerPartial
  <2>1. rx' \in Seq(Events)
    BY <1>49, EmitsTyped DEF TypeOK, ServerPartial, Events, AsrEvents, TtsEvents
  <2>. QED
    BY <1>49, <2>1 DEF TypeOK, ServerPartial, ServerSide, turnVars, watchVars
<1>50. CASE ServerFinal
  <2>1. rx' \in Seq(Events)
    BY <1>50, EmitsTyped DEF TypeOK, ServerFinal, Events, AsrEvents, TtsEvents
  <2>2. server' \in Server
    BY <1>50 DEF TypeOK, ServerFinal, Server
  <2>3. budget' \in [Disturbances \cup {"turn", "segment"} -> Nat]
    BY <1>50, SpendTyped DEF TypeOK, ServerFinal, Disturbances
  <2>. QED
    BY <1>50, <2>1, <2>2, <2>3 DEF TypeOK, ServerFinal, ServerSide, turnVars, watchVars
<1>51. CASE ServerEmptyFinal
  <2>1. rx' \in Seq(Events)
    BY <1>51, EmitsTyped DEF TypeOK, ServerEmptyFinal, Events, AsrEvents, TtsEvents
  <2>2. server' \in Server
    BY <1>51 DEF TypeOK, ServerEmptyFinal, Server
  <2>. QED
    BY <1>51, <2>1, <2>2 DEF TypeOK, ServerEmptyFinal, ServerSide, turnVars, watchVars
<1>52. CASE ServerStarts
  <2>1. rx' \in Seq(Events)
    BY <1>52, EmitsTyped DEF TypeOK, ServerStarts, Events, AsrEvents, TtsEvents
  <2>2. server' \in Server
    <3>1. CASE server' = [server EXCEPT !.speaking = server.queued, !.begun = server.queued,
                                        !.queued = {}]
      BY <3>1 DEF TypeOK, Server
    <3>2. CASE server' = [server EXCEPT !.speaking = server.text, !.begun = server.text,
                                        !.text = {}]
      BY <3>2 DEF TypeOK, Server
    <3>. QED
      BY <1>52, <3>1, <3>2 DEF ServerStarts
  <2>. QED
    BY <1>52, <2>1, <2>2 DEF TypeOK, ServerStarts, ServerSide, turnVars, watchVars
<1>53. CASE ServerSpeaks
  <2>1. rx' \in Seq(Events)
    BY <1>53, EmitsTyped DEF TypeOK, ServerSpeaks, Events, AsrEvents, TtsEvents
  <2>2. server' \in Server
    BY <1>53 DEF TypeOK, ServerSpeaks, Server
  <2>. QED
    BY <1>53, <2>1, <2>2 DEF TypeOK, ServerSpeaks, ServerSide, turnVars, watchVars
<1>54. CASE ServerDone
  <2>1. rx' \in Seq(Events)
    BY <1>54, EmitsTyped DEF TypeOK, ServerDone, Events, AsrEvents, TtsEvents
  <2>2. server' \in Server
    BY <1>54 DEF TypeOK, ServerDone, Server
  <2>. QED
    BY <1>54, <2>1, <2>2 DEF TypeOK, ServerDone, ServerSide, turnVars, watchVars
<1>55. CASE ServerWedges
  <2>1. server' \in Server
    BY <1>55 DEF TypeOK, ServerWedges, Server
  <2>. QED
    BY <1>55, <2>1, SpendTyped
       DEF TypeOK, ConvState, ServerWedges, ServerSide, turnVars, watchVars, Disturbances
<1>56. CASE ConnectionDies
  BY <1>56, SpendTyped
     DEF TypeOK, ConvState, ConnectionDies, ReaderErrs, ServerSide, turnVars, watchVars,
         Disturbances, Events, AsrEvents, TtsEvents
<1>57. CASE ConnectionCloses
  BY <1>57, SpendTyped
     DEF TypeOK, ConvState, ConnectionCloses, ServerSide, turnVars, watchVars, Disturbances
<1>58. CASE ReaderCrashes
  BY <1>58, SpendTyped
     DEF TypeOK, ConvState, ReaderCrashes, ReaderErrs, ServerSide, turnVars, watchVars,
         Disturbances, Events, AsrEvents, TtsEvents
<1>59. CASE UNCHANGED vars
  BY <1>59 DEF TypeOK, vars, turnVars, frame, watchVars
<1>. QED
  BY <1>1, <1>2, <1>3, <1>4, <1>5, <1>6, <1>7, <1>8, <1>9, <1>10, <1>11, <1>12,
     <1>13, <1>14, <1>15, <1>16, <1>17, <1>18, <1>19, <1>20, <1>21, <1>22, <1>23, <1>24,
     <1>25, <1>26, <1>27, <1>28, <1>29, <1>30, <1>31, <1>32, <1>33, <1>34, <1>35, <1>36,
     <1>37, <1>38, <1>39, <1>40, <1>41, <1>42, <1>43, <1>44, <1>45, <1>46, <1>47, <1>48,
     <1>49, <1>50, <1>51, <1>52, <1>53, <1>54, <1>55, <1>56, <1>57, <1>58, <1>59
     DEF Next, LlmStep, LlmCompletes, DispStep

(* The configuration, the queues and the records of every task keep their   *)
(* types.                                                                  *)
THEOREM TypeCorrect == Spec => []TypeOK
BY InitTyped, StepTyped, PTL DEF Spec

-----------------------------------------------------------------------------
(* What makes the texts of two turns stay apart: only the turn that sends    *)
(* has text with the server, it ends with a flush or an abort, a broken      *)
(* connection's session has none, and the next turn waits for that end.      *)
Apart ==
    /\ server.text \subseteq {llm.turn}
    /\ llm.pc # "flush"
    /\ llm.pc = "token" => llm.sent
    /\ (llm.pc \in {"run", "token"} /\ llm.sent) \/ server.text = {}
    /\ conn = "broken" => server.text = {}
    /\ disp.pc = "replacing" => disp.turn = llm.turn

LEMMA CancelKeeps ==
    ASSUME llm \in Llm, LlmCancel
    PROVE  llm'.pc = llm.pc /\ llm'.sent = llm.sent /\ llm'.turn = llm.turn
BY DEF Llm, LlmCancel

LEMMA EndsTurn ==
    ASSUME llm \in Llm, LlmEnds
    PROVE  llm'.pc = "none" /\ llm'.turn = llm.turn
BY DEF Llm, LlmEnds

(* An abort leaves no text; an end of speech does not touch it. *)
LEMMA AbortClears ==
    ASSUME server \in Server, NEW keep \in BOOLEAN, conn = "broken" => server.text = {},
           Sends(Aborted(keep))
    PROVE  server'.text = {} /\ conn' # "broken"
BY DEF Sends, Aborted, Server

LEMMA EosKeeps ==
    ASSUME server \in Server, Sends(EosTaken)
    PROVE  server'.text = server.text /\ conn' # "broken"
BY DEF Sends, EosTaken, Server

LEMMA DropClears ==
    ASSUME TypeOK, Apart, DropsReply
    PROVE  server'.text = {} /\ (conn' = "broken" => conn = "broken")
<1>1. CASE llm.pc \in {"run", "token"} /\ llm.sent
  BY <1>1, AbortClears DEF TypeOK, Apart, DropsReply
<1>2. CASE ~(llm.pc \in {"run", "token"} /\ llm.sent)
  BY <1>2 DEF Apart, DropsReply
<1>. QED
  BY <1>1, <1>2

LEMMA InitApart == Init => Apart
BY DEF Init, Apart, FreshServer, Ready

LEMMA StepApart ==
    ASSUME TypeOK, Apart, ~deployment.contended, [Next]_vars
    PROVE  Apart'
<1>. USE DEF Apart
<1>1. CASE LlmToken
  BY <1>1 DEF TypeOK, LlmToken, LlmRuns, frame, turnVars, watchVars, Llm
<1>2. CASE LlmTokenSent
  BY <1>2 DEF TypeOK, LlmTokenSent, Sends, frame, watchVars, Llm, Server
<1>3. CASE LlmFails
  BY <1>3, DropClears DEF TypeOK, LlmFails, LlmRuns, turnVars, watchVars, Llm
<1>4. CASE LlmFlush
  BY <1>4, EndsTurn DEF TypeOK, LlmFlush, frame, watchVars, Sends, Server
<1>5. CASE LlmFlushWaits
  BY <1>5 DEF TypeOK, LlmFlushWaits, LlmRuns, frame, watchVars, Llm
<1>6. CASE LlmCancelled
  BY <1>6, EndsTurn, DropClears DEF TypeOK, LlmCancelled, frame, turnVars, watchVars
<1>7. CASE LlmFailed
  BY <1>7, EndsTurn DEF TypeOK, LlmFailed, frame, turnVars, watchVars
<1>8. CASE DispDrops
  BY <1>8 DEF TypeOK, DispDrops, Takes, frame, turnVars, watchVars
<1>9. CASE OnTtsStarted
  BY <1>9 DEF TypeOK, OnTtsStarted, Takes, frame, ConnAfterCut, RecoveryCut, turnVars
<1>10. CASE OnTtsAudio
  BY <1>10 DEF TypeOK, OnTtsAudio, Takes, frame, watchVars, Disp
<1>11. CASE FramePlays
  BY <1>11 DEF TypeOK, FramePlays, frame, Ready, turnVars, watchVars
<1>12. CASE OnTtsDone
  BY <1>12 DEF TypeOK, OnTtsDone, Takes, frame, ConnAfterCut, RecoveryCut, Disp
<1>13. CASE TurnCompletes
  BY <1>13 DEF TypeOK, TurnCompletes, Ready, frame, watchVars
<1>14. CASE PartialBargesIn
  BY <1>14, CancelKeeps DEF TypeOK, PartialBargesIn, Takes, frame, turnVars, watchVars,
     Disp
<1>15. CASE PartialShown
  BY <1>15 DEF TypeOK, PartialShown, Takes, frame, turnVars, watchVars
<1>16. CASE OnSegment
  BY <1>16 DEF TypeOK, OnSegment, Takes, frame
<1>17. CASE OnUtterance
  <2>1. disp'.pc # "replacing"
    <3>1. CASE IsPlaying
      BY <1>17, <3>1 DEF OnUtterance
    <3>2. CASE ~IsPlaying
      BY <1>17, <3>2 DEF TypeOK, OnUtterance, Disp
    <3>. QED
      BY <3>1, <3>2
  <2>2. llm'.pc = llm.pc /\ llm'.sent = llm.sent /\ llm'.turn = llm.turn
    BY <1>17, CancelKeeps DEF TypeOK, OnUtterance
  <2>. QED
    BY <1>17, <2>1, <2>2 DEF OnUtterance
<1>18. CASE OnLowSignal
  BY <1>18 DEF TypeOK, OnLowSignal, Takes, frame
<1>19. CASE UtteranceGoes
  BY <1>19, CancelKeeps DEF TypeOK, UtteranceGoes, frame, watchVars, Disp
<1>20. CASE StopIntent
  BY <1>20, AbortClears DEF TypeOK, StopIntent, LlmOver, Ready, frame, turnVars, watchVars
<1>21. CASE TurnStarts
  BY <1>21 DEF TypeOK, TurnStarts, LlmOver, Ready, ConnAfterCut, RecoveryCut, frame,
     turnVars, Llm
<1>22. CASE OnError
  BY <1>22 DEF TypeOK, OnError, Takes, frame, ConnAfterCut, RecoveryCut, Disp
<1>23. CASE ErrorCancels
  BY <1>23, CancelKeeps DEF TypeOK, ErrorCancels, frame, turnVars, watchVars, Disp
<1>24. CASE ErrorHandled
  BY <1>24 DEF TypeOK, ErrorHandled, LlmOver, Ready, frame, turnVars, watchVars
<1>25. CASE DispReconnects
  BY <1>25 DEF TypeOK, DispReconnects, FreshServer, frame, turnVars, watchVars, Disp
<1>26. CASE DispReconnected
  BY <1>26 DEF TypeOK, DispReconnected, Ready, frame
<1>27. CASE DispStops
  BY <1>27, AbortClears DEF TypeOK, DispStops, StopsReply, LlmOver, frame, turnVars,
     watchVars, Disp
<1>28. CASE DispResets
  BY <1>28 DEF TypeOK, DispResets, InterruptResets, frame, Ready, Disp
<1>29. CASE MicStops
  BY <1>29, AbortClears DEF TypeOK, MicStops, StopsReply, LlmOver, frame, turnVars,
     watchVars
<1>30. CASE MicResets
  BY <1>30 DEF TypeOK, MicResets, InterruptResets, frame
<1>31. CASE MicBargesIn
  BY <1>31, CancelKeeps DEF TypeOK, MicBargesIn, SpeechStarts
<1>32. CASE MicHearsEcho
  BY <1>32 DEF TypeOK, MicHearsEcho, SpeechStarts
<1>33. CASE MicListens
  BY <1>33 DEF TypeOK, MicListens, SpeechStarts
<1>34. CASE SpeechEnds
  BY <1>34 DEF TypeOK, SpeechEnds, frame, turnVars, watchVars
<1>35. CASE MicSendsEos
  BY <1>35, EosKeeps DEF TypeOK, MicSendsEos, ConnAfterCut, RecoveryCut, frame
<1>36. CASE UserSpeaks
  BY <1>36 DEF TypeOK, UserSpeaks, frame, turnVars, watchVars, Server
<1>37. CASE AudioReconnects
  BY <1>37 DEF TypeOK, AudioReconnects, frame, turnVars
<1>38. CASE Plays
  BY <1>38 DEF TypeOK, Plays, frame, turnVars, watchVars
<1>39. CASE AsrWatchFires
  BY <1>39 DEF TypeOK, AsrWatchFires, frame
<1>40. CASE ThinkFires
  BY <1>40, CancelKeeps DEF TypeOK, ThinkFires, frame, turnVars
<1>41. CASE ThinkReconnects
  BY <1>41 DEF TypeOK, ThinkReconnects, LlmOver, FreshServer, frame, turnVars
<1>42. CASE ThinkResets
  BY <1>42 DEF TypeOK, ThinkResets, frame
<1>43. CASE FallbackFires
  BY <1>43, EosKeeps DEF TypeOK, FallbackFires, frame
<1>44. CASE FallbackSent
  BY <1>44 DEF TypeOK, FallbackSent, ConnAfterCut, RecoveryCut, frame, turnVars
<1>45. CASE SleepBegins
  BY <1>45, CancelKeeps DEF TypeOK, SleepBegins, turnVars, watchVars
<1>46. CASE SleepAborts
  BY <1>46, AbortClears DEF TypeOK, SleepAborts, LlmOver, frame, turnVars, watchVars
<1>47. CASE SleepEnds
  BY <1>47 DEF TypeOK, SleepEnds, frame, watchVars
<1>48. CASE Wake
  BY <1>48 DEF TypeOK, Wake, frame, turnVars, watchVars
<1>49. CASE ServerPartial
  BY <1>49 DEF TypeOK, ServerPartial, Emits, ServerSide, turnVars, watchVars
<1>50. CASE ServerFinal
  BY <1>50 DEF TypeOK, ServerFinal, Emits, ServerSide, turnVars, watchVars, Server
<1>51. CASE ServerEmptyFinal
  BY <1>51 DEF TypeOK, ServerEmptyFinal, Emits, ServerSide, turnVars, watchVars, Server
<1>52. CASE ServerStarts
  BY <1>52 DEF TypeOK, ServerStarts, Emits, ServerSide, turnVars, watchVars, Server
<1>53. CASE ServerSpeaks
  BY <1>53 DEF TypeOK, ServerSpeaks, Emits, ServerSide, turnVars, watchVars, Server
<1>54. CASE ServerDone
  BY <1>54 DEF TypeOK, ServerDone, Emits, ServerSide, turnVars, watchVars, Server
<1>55. CASE ServerWedges
  BY <1>55 DEF TypeOK, ServerWedges, ServerSide, turnVars, watchVars, Server
<1>56. CASE ConnectionDies
  BY <1>56 DEF TypeOK, ConnectionDies, FreshServer, ServerSide, turnVars, watchVars
<1>57. CASE ConnectionCloses
  BY <1>57 DEF TypeOK, ConnectionCloses, FreshServer, ServerSide, turnVars, watchVars
<1>58. CASE ReaderCrashes
  BY <1>58 DEF TypeOK, ReaderCrashes, ServerSide, turnVars, watchVars
<1>59. CASE UNCHANGED vars
  BY <1>59 DEF vars
<1>. QED
  BY <1>1, <1>2, <1>3, <1>4, <1>5, <1>6, <1>7, <1>8, <1>9, <1>10, <1>11, <1>12,
     <1>13, <1>14, <1>15, <1>16, <1>17, <1>18, <1>19, <1>20, <1>21, <1>22, <1>23, <1>24,
     <1>25, <1>26, <1>27, <1>28, <1>29, <1>30, <1>31, <1>32, <1>33, <1>34, <1>35, <1>36,
     <1>37, <1>38, <1>39, <1>40, <1>41, <1>42, <1>43, <1>44, <1>45, <1>46, <1>47, <1>48,
     <1>49, <1>50, <1>51, <1>52, <1>53, <1>54, <1>55, <1>56, <1>57, <1>58, <1>59
     DEF Next, LlmStep, LlmCompletes, DispStep

LEMMA ApartSuffices == Apart => RepliesDontMix
<1>. SUFFICES ASSUME Apart PROVE Cardinality(server.text) <= 1
  BY DEF RepliesDontMix
<1>1. server.text = {} \/ server.text = {llm.turn}
  BY DEF Apart
<1>2. Cardinality({}) = 0 /\ Cardinality({llm.turn}) = 1
  BY FS_EmptySet, FS_Singleton
<1>. QED
  BY <1>1, <1>2

(* No reply is mixed from two turns, through barge-ins, superseded and       *)
(* failing turns, reconnections, stop and sleep, where a flush is sent       *)
(* without waiting for the send lock.                                      *)
THEOREM RepliesStayApart ==
    ASSUME \A d \in Deployments : ~d.contended
    PROVE  Spec => []RepliesDontMix
<1>1. TypeOK => ~deployment.contended
  BY DEF TypeOK
<1>2. TypeOK /\ Apart /\ [Next]_vars => Apart'
  BY <1>1, StepApart
<1>. QED
  BY InitApart, <1>2, ApartSuffices, TypeCorrect, PTL DEF Spec

-----------------------------------------------------------------------------
(* What keeps a barge-in silent: a frame on its way into play() was not      *)
(* part of a superseded reply, and meets the latch once the barge-in has     *)
(* stopped playback; nothing plays while the dispatcher waits for an abort.  *)
Silent ==
    /\ disp.pc = "frame" => ~awaiting
    /\ disp.pc = "aborting" => ~IsPlaying
    /\ BargedInIsSilent
    /\ fsm = "BARGED_IN" /\ mic.pc # "cancelling" /\ disp.pc = "frame" => audio.discard

LEMMA StoppedIsSilent == Stopped.discard /\ ~Stopped.flag /\ ~Stopped.buffer
BY DEF Stopped

LEMMA RearmedKeeps ==
    ASSUME audio \in Audio
    PROVE  Rearmed.flag = audio.flag /\ Rearmed.buffer = audio.buffer
BY DEF Audio, Rearmed

LEMMA PlayedAtMost ==
    ASSUME audio \in Audio, audio.discard
    PROVE  Played = audio
BY DEF Played

LEMMA DropKeepsSilence ==
    ASSUME DropsReply
    PROVE  audio' = audio \/ audio' = Stopped
BY DEF DropsReply

LEMMA InitSilent == Init => Silent
BY DEF Init, Silent, BargedInIsSilent, IsPlaying, Ready

LEMMA StepSilent ==
    ASSUME TypeOK, Silent, [Next]_vars
    PROVE  Silent'
<1>. USE DEF Silent, BargedInIsSilent, IsPlaying
<1>1. CASE LlmToken
  BY <1>1 DEF TypeOK, LlmToken, frame, turnVars, watchVars
<1>2. CASE LlmTokenSent
  BY <1>2, RearmedKeeps DEF TypeOK, LlmTokenSent, ReplyTextGoes, frame, watchVars, Audio
<1>3. CASE LlmFails
  BY <1>3, DropKeepsSilence, StoppedIsSilent DEF TypeOK, LlmFails, turnVars, watchVars
<1>4. CASE LlmFlush
  BY <1>4, RearmedKeeps DEF TypeOK, LlmFlush, ReplyTextGoes, frame, watchVars, Audio
<1>5. CASE LlmFlushWaits
  BY <1>5, RearmedKeeps DEF TypeOK, LlmFlushWaits, ReplyTextGoes, frame, watchVars, Audio
<1>6. CASE LlmCancelled
  BY <1>6, DropKeepsSilence, StoppedIsSilent DEF TypeOK, LlmCancelled, frame, turnVars,
                                                 watchVars
<1>7. CASE LlmFailed
  BY <1>7 DEF TypeOK, LlmFailed, frame, turnVars, watchVars
<1>8. CASE DispDrops
  BY <1>8 DEF TypeOK, DispDrops, Takes, frame, turnVars, watchVars
<1>9. CASE OnTtsStarted
  BY <1>9 DEF TypeOK, OnTtsStarted, Takes, frame, turnVars
<1>10. CASE OnTtsAudio
  BY <1>10 DEF TypeOK, OnTtsAudio, Takes, frame, Dropped, TtsEvents, watchVars, Disp
<1>11. CASE FramePlays
  BY <1>11, PlayedAtMost DEF TypeOK, FramePlays, frame, Ready, turnVars, watchVars, Audio
<1>12. CASE OnTtsDone
  BY <1>12 DEF TypeOK, OnTtsDone, Takes, frame, Audio, Disp
<1>13. CASE TurnCompletes
  BY <1>13 DEF TypeOK, TurnCompletes, Ready, frame, watchVars
<1>14. CASE PartialBargesIn
  BY <1>14 DEF TypeOK, PartialBargesIn, Takes, frame, turnVars, watchVars, Disp
<1>15. CASE PartialShown
  BY <1>15 DEF TypeOK, PartialShown, Takes, frame, turnVars, watchVars
<1>16. CASE OnSegment
  BY <1>16 DEF TypeOK, OnSegment, Takes, frame
<1>17. CASE OnUtterance
  <2>1. CASE IsPlaying
    BY <1>17, <2>1 DEF TypeOK, OnUtterance
  <2>2. CASE ~IsPlaying
    BY <1>17, <2>2, RearmedKeeps DEF TypeOK, OnUtterance, Disp, Mic
  <2>. QED
    BY <2>1, <2>2
<1>18. CASE OnLowSignal
  BY <1>18, RearmedKeeps DEF TypeOK, OnLowSignal, Takes, frame
<1>19. CASE UtteranceGoes
  BY <1>19 DEF TypeOK, UtteranceGoes, frame, watchVars, Disp
<1>20. CASE StopIntent
  BY <1>20, StoppedIsSilent DEF TypeOK, StopIntent, Ready, frame, turnVars, watchVars
<1>21. CASE TurnStarts
  BY <1>21 DEF TypeOK, TurnStarts, Ready, frame, turnVars
<1>22. CASE OnError
  BY <1>22 DEF TypeOK, OnError, Takes, frame, Disp
<1>23. CASE ErrorCancels
  BY <1>23 DEF TypeOK, ErrorCancels, frame, turnVars, watchVars, Disp
<1>24. CASE ErrorHandled
  BY <1>24 DEF TypeOK, ErrorHandled, Ready, frame, turnVars, watchVars
<1>25. CASE DispReconnects
  BY <1>25 DEF TypeOK, DispReconnects, frame, turnVars, watchVars, Disp
<1>26. CASE DispReconnected
  BY <1>26 DEF TypeOK, DispReconnected, Ready, frame
<1>27. CASE DispStops
  BY <1>27, StoppedIsSilent DEF TypeOK, DispStops, StopsReply, frame, turnVars,
                                watchVars, Disp
<1>28. CASE DispResets
  BY <1>28 DEF TypeOK, DispResets, InterruptResets, frame, Ready, Disp, Mic
<1>29. CASE MicStops
  BY <1>29, StoppedIsSilent DEF TypeOK, MicStops, StopsReply, frame, turnVars,
                                watchVars, Mic
<1>30. CASE MicResets
  BY <1>30 DEF TypeOK, MicResets, InterruptResets, frame, Mic
<1>31. CASE MicBargesIn
  BY <1>31 DEF TypeOK, MicBargesIn, SpeechStarts, Mic
<1>32. CASE MicHearsEcho
  BY <1>32 DEF TypeOK, MicHearsEcho, SpeechStarts, Mic
<1>33. CASE MicListens
  BY <1>33 DEF TypeOK, MicListens, SpeechStarts, Mic
<1>34. CASE SpeechEnds
  BY <1>34 DEF TypeOK, SpeechEnds, frame, turnVars, watchVars, Mic
<1>35. CASE MicSendsEos
  BY <1>35 DEF TypeOK, MicSendsEos, frame, Mic
<1>36. CASE UserSpeaks
  BY <1>36 DEF TypeOK, UserSpeaks, frame, turnVars, watchVars
<1>37. CASE AudioReconnects
  BY <1>37 DEF TypeOK, AudioReconnects, frame, turnVars
<1>38. CASE Plays
  BY <1>38 DEF TypeOK, Plays, frame, turnVars, watchVars, Audio
<1>39. CASE AsrWatchFires
  BY <1>39 DEF TypeOK, AsrWatchFires, frame
<1>40. CASE ThinkFires
  BY <1>40 DEF TypeOK, ThinkFires, frame, turnVars
<1>41. CASE ThinkReconnects
  BY <1>41 DEF TypeOK, ThinkReconnects, frame, turnVars
<1>42. CASE ThinkResets
  BY <1>42 DEF TypeOK, ThinkResets, frame
<1>43. CASE FallbackFires
  BY <1>43 DEF TypeOK, FallbackFires, frame
<1>44. CASE FallbackSent
  BY <1>44 DEF TypeOK, FallbackSent, frame, turnVars
<1>45. CASE SleepBegins
  BY <1>45 DEF TypeOK, SleepBegins, turnVars, watchVars
<1>46. CASE SleepAborts
  BY <1>46 DEF TypeOK, SleepAborts, frame, turnVars, watchVars
<1>47. CASE SleepEnds
  BY <1>47, StoppedIsSilent DEF TypeOK, SleepEnds, frame, watchVars
<1>48. CASE Wake
  BY <1>48, RearmedKeeps DEF TypeOK, Wake, frame, turnVars, watchVars
<1>49. CASE ServerPartial
  BY <1>49 DEF TypeOK, ServerPartial, Emits, ServerSide, turnVars, watchVars
<1>50. CASE ServerFinal
  BY <1>50 DEF TypeOK, ServerFinal, Emits, ServerSide, turnVars, watchVars
<1>51. CASE ServerEmptyFinal
  BY <1>51 DEF TypeOK, ServerEmptyFinal, Emits, ServerSide, turnVars, watchVars
<1>52. CASE ServerStarts
  BY <1>52 DEF TypeOK, ServerStarts, Emits, ServerSide, turnVars, watchVars
<1>53. CASE ServerSpeaks
  BY <1>53 DEF TypeOK, ServerSpeaks, Emits, ServerSide, turnVars, watchVars
<1>54. CASE ServerDone
  BY <1>54 DEF TypeOK, ServerDone, Emits, ServerSide, turnVars, watchVars
<1>55. CASE ServerWedges
  BY <1>55 DEF TypeOK, ServerWedges, ServerSide, turnVars, watchVars
<1>56. CASE ConnectionDies
  BY <1>56 DEF TypeOK, ConnectionDies, ServerSide, turnVars, watchVars
<1>57. CASE ConnectionCloses
  BY <1>57 DEF TypeOK, ConnectionCloses, ServerSide, turnVars, watchVars
<1>58. CASE ReaderCrashes
  BY <1>58 DEF TypeOK, ReaderCrashes, ServerSide, turnVars, watchVars
<1>59. CASE UNCHANGED vars
  BY <1>59 DEF vars, turnVars
<1>. QED
  BY <1>1, <1>2, <1>3, <1>4, <1>5, <1>6, <1>7, <1>8, <1>9, <1>10, <1>11, <1>12,
     <1>13, <1>14, <1>15, <1>16, <1>17, <1>18, <1>19, <1>20, <1>21, <1>22, <1>23, <1>24,
     <1>25, <1>26, <1>27, <1>28, <1>29, <1>30, <1>31, <1>32, <1>33, <1>34, <1>35, <1>36,
     <1>37, <1>38, <1>39, <1>40, <1>41, <1>42, <1>43, <1>44, <1>45, <1>46, <1>47, <1>48,
     <1>49, <1>50, <1>51, <1>52, <1>53, <1>54, <1>55, <1>56, <1>57, <1>58, <1>59
     DEF Next, LlmStep, LlmCompletes, DispStep

(* A barge-in silences the agent, whichever task carries it out and          *)
(* whatever frames, tokens and superseded replies are on their way.          *)
THEOREM BargeInsAreSilent == Spec => []BargedInIsSilent
<1>1. TypeOK /\ Silent /\ [Next]_vars => Silent'
  BY StepSilent
<1>2. Silent => BargedInIsSilent
  BY DEF Silent
<1>. QED
  BY InitSilent, <1>1, <1>2, TypeCorrect, PTL DEF Spec
=============================================================================
