-------------------------- MODULE AgentTurnsProofs --------------------------
(***************************************************************************)
(* What is proved of AgentTurns: the transcripts that are stored and sent  *)
(* are well formed, and a thread loses no turn but to one that had loaded  *)
(* it before.  The first part is about transcripts alone: what appending a *)
(* message to one and compacting one does to the calls that it owes.       *)
(***************************************************************************)
EXTENDS AgentTurns, SequenceTheorems, WellFoundedInduction, TLAPS

Followed(m, i) ==
  \A j \in 1..Len(m) : i < j /\ j <= i + m[i].calls => m[j].role = "tool"

(* The last k calls of transcript m are not answered yet: they are those   *)
(* of one assistant message, which has nothing but results after it.       *)
Owes(m, k) ==
  /\ \A i \in 1..Len(m) : m[i].role = "assistant" =>
       i + m[i].calls <= Len(m) + k /\ Followed(m, i)
  /\ ResultsAreCalledFor(m)
  /\ k > 0 => \E i \in 1..Len(m) : m[i].role = "assistant" /\ i + m[i].calls = Len(m) + k

\* A message is a record of its three fields.
LEMMA MessageTypes ==
  /\ User \in Messages
  /\ \A n \in Nat : Assistant(n) \in Messages
  /\ \A own \in BOOLEAN : ToolResult(own) \in Messages
  BY DEF User, Assistant, ToolResult, Messages

\* The messages of a transcript.
LEMMA Elements ==
  ASSUME NEW m \in Seq(Messages)
  PROVE  /\ Len(m) \in Nat
         /\ \A i \in 1..Len(m) : m[i] \in Messages /\ m[i].calls \in Nat
<1>1. Len(m) \in Nat /\ \A i \in 1..Len(m) : m[i] \in Messages
  BY ElementOfSeq, LenProperties
<1>2. \A e \in Messages : e.calls \in Nat
  BY DEF Messages
<1> QED BY <1>1, <1>2

\* What the elements of an appended transcript are.
LEMMA Appended ==
  ASSUME NEW m \in Seq(Messages), NEW e \in Messages
  PROVE  /\ Append(m, e) \in Seq(Messages)
         /\ Len(m) \in Nat
         /\ Len(Append(m, e)) = Len(m) + 1
         /\ \A i \in 1..Len(m) : Append(m, e)[i] = m[i] /\ m[i].calls \in Nat
         /\ Append(m, e)[Len(m) + 1] = e
  BY AppendProperties, Elements

\* A transcript that owes nothing is a well-formed one.
LEMMA OwesNothing ==
  ASSUME NEW m \in Seq(Messages)
  PROVE  Owes(m, 0) <=> WellFormed(m)
<1>1. Len(m) \in Nat /\ \A i \in 1..Len(m) : m[i].calls \in Nat
  BY Elements
<1>2. ASSUME NEW i \in 1..Len(m), i + m[i].calls <= Len(m)
      PROVE  Followed(m, i) <=> \A j \in 1..m[i].calls : m[i + j].role = "tool"
  <2>1. ASSUME Followed(m, i), NEW j \in 1..m[i].calls PROVE m[i + j].role = "tool"
    <3>1. i + j \in 1..Len(m) /\ i < i + j /\ i + j <= i + m[i].calls
      BY <1>1, <1>2, <2>1
    <3> QED BY <3>1, <2>1 DEF Followed
  <2>2. ASSUME \A j \in 1..m[i].calls : m[i + j].role = "tool",
               NEW j \in 1..Len(m), i < j, j <= i + m[i].calls
        PROVE  m[j].role = "tool"
    <3>1. j - i \in 1..m[i].calls /\ i + (j - i) = j
      BY <1>1, <2>2
    <3> QED BY <3>1, <2>2
  <2> QED BY <2>1, <2>2 DEF Followed
<1>3. Owes(m, 0) => WellFormed(m)
  BY <1>1, <1>2 DEF Owes, WellFormed, CallsAreAnswered
<1>4. WellFormed(m) => Owes(m, 0)
  BY <1>1, <1>2 DEF Owes, WellFormed, CallsAreAnswered
<1> QED BY <1>3, <1>4

\* The results stay called for when a message is appended that is no result, or
\* the result of a call that is owed.
LEMMA ResultsAppended ==
  ASSUME NEW m \in Seq(Messages), NEW e \in Messages, ResultsAreCalledFor(m),
         e.role = "tool" =>
           e.own /\ \E k \in 1..Len(m) : m[k].role = "assistant" /\ k + m[k].calls >= Len(m) + 1
  PROVE  ResultsAreCalledFor(Append(m, e))
<1> DEFINE a == Append(m, e)
<1>1. /\ Len(m) \in Nat /\ Len(a) = Len(m) + 1
      /\ \A i \in 1..Len(m) : a[i] = m[i]
      /\ a[Len(m) + 1] = e
  BY Appended
<1>2. SUFFICES ASSUME NEW i \in 1..Len(a), a[i].role = "tool"
               PROVE  /\ a[i].own
                      /\ \E k \in 1..(i - 1) : a[k].role = "assistant" /\ k + a[k].calls >= i
  BY DEF ResultsAreCalledFor
<1> HIDE DEF a
<1>3. CASE i \in 1..Len(m)
  <2>1. m[i].own /\ \E k \in 1..(i - 1) : m[k].role = "assistant" /\ k + m[k].calls >= i
    BY <1>1, <1>2, <1>3 DEF ResultsAreCalledFor
  <2> QED BY <1>1, <1>3, <2>1
<1>4. CASE i = Len(m) + 1
  BY <1>1, <1>2, <1>4
<1> QED BY <1>1, <1>3, <1>4

\* A prompt, or a request to go on, owes nothing.
LEMMA AppendUser ==
  ASSUME NEW m \in Seq(Messages), Owes(m, 0)
  PROVE  Owes(Append(m, User), 0)
<1> DEFINE a == Append(m, User)
<1>1. /\ Len(m) \in Nat /\ Len(a) = Len(m) + 1
      /\ \A i \in 1..Len(m) : a[i] = m[i] /\ m[i].calls \in Nat
      /\ a[Len(m) + 1] = User
  BY Appended, MessageTypes
<1>2. ResultsAreCalledFor(a)
  BY ResultsAppended, MessageTypes DEF User, Owes
<1> HIDE DEF a
<1>3. ASSUME NEW i \in 1..Len(a), a[i].role = "assistant"
      PROVE  i + a[i].calls <= Len(a) + 0 /\ Followed(a, i)
  <2>1. i \in 1..Len(m) /\ a[i] = m[i]
    BY <1>1, <1>3 DEF User
  <2>2. i + m[i].calls <= Len(m) /\ Followed(m, i)
    BY <1>1, <1>3, <2>1 DEF Owes
  <2>3. ASSUME NEW j \in 1..Len(a), i < j, j <= i + a[i].calls
        PROVE  a[j].role = "tool"
    <3>1. j \in 1..Len(m)
      BY <1>1, <2>1, <2>2, <2>3
    <3> QED BY <1>1, <2>1, <2>2, <2>3, <3>1 DEF Followed
  <2> QED BY <1>1, <2>1, <2>2, <2>3 DEF Followed
<1> QED BY <1>2, <1>3 DEF Owes, a

\* A reply of the model owes its calls.
LEMMA AppendAssistant ==
  ASSUME NEW m \in Seq(Messages), Owes(m, 0), NEW n \in Nat
  PROVE  Owes(Append(m, Assistant(n)), n)
<1> DEFINE a == Append(m, Assistant(n))
<1>1. /\ Len(m) \in Nat /\ Len(a) = Len(m) + 1
      /\ \A i \in 1..Len(m) : a[i] = m[i] /\ m[i].calls \in Nat
      /\ a[Len(m) + 1] = Assistant(n)
  BY Appended, MessageTypes
<1>2. ResultsAreCalledFor(a)
  BY ResultsAppended, MessageTypes DEF Assistant, Owes
<1> HIDE DEF a
<1>3. ASSUME NEW i \in 1..Len(a), a[i].role = "assistant"
      PROVE  i + a[i].calls <= Len(a) + n /\ Followed(a, i)
  <2>1. CASE i \in 1..Len(m)
    <3>1. i + m[i].calls <= Len(m) /\ Followed(m, i) /\ a[i] = m[i]
      BY <1>1, <1>3, <2>1 DEF Owes
    <3>2. ASSUME NEW j \in 1..Len(a), i < j, j <= i + a[i].calls
          PROVE  a[j].role = "tool"
      <4>1. j \in 1..Len(m)
        BY <1>1, <2>1, <3>1, <3>2
      <4> QED BY <1>1, <2>1, <3>1, <3>2, <4>1 DEF Followed
    <3> QED BY <1>1, <2>1, <3>1, <3>2 DEF Followed
  <2>2. CASE i = Len(m) + 1
    BY <1>1, <2>2 DEF Assistant, Followed
  <2> QED BY <1>1, <2>1, <2>2
<1>4. \E i \in 1..Len(a) : a[i].role = "assistant" /\ i + a[i].calls = Len(a) + n
  BY <1>1 DEF Assistant
<1> QED BY <1>2, <1>3, <1>4 DEF Owes, a

\* A result answers one of the calls that are owed.
LEMMA AppendResult ==
  ASSUME NEW m \in Seq(Messages), NEW k \in Nat \ {0}, Owes(m, k)
  PROVE  Owes(Append(m, ToolResult(TRUE)), k - 1)
<1> DEFINE a == Append(m, ToolResult(TRUE))
<1>1. /\ Len(m) \in Nat /\ Len(a) = Len(m) + 1
      /\ \A i \in 1..Len(m) : a[i] = m[i] /\ m[i].calls \in Nat
      /\ a[Len(m) + 1] = ToolResult(TRUE)
  BY Appended, MessageTypes, ToolResult(TRUE) \in Messages
<1>2. PICK c \in 1..Len(m) : m[c].role = "assistant" /\ c + m[c].calls = Len(m) + k
  BY DEF Owes
<1>3. ResultsAreCalledFor(a)
  <2>1. c + m[c].calls >= Len(m) + 1
    BY <1>1, <1>2
  <2> QED BY <1>2, <2>1, ResultsAppended, MessageTypes DEF ToolResult, Owes
<1> HIDE DEF a
<1>4. ASSUME NEW i \in 1..Len(a), a[i].role = "assistant"
      PROVE  i + a[i].calls <= Len(a) + (k - 1) /\ Followed(a, i)
  <2>1. i \in 1..Len(m) /\ a[i] = m[i]
    BY <1>1, <1>4 DEF ToolResult
  <2>2. i + m[i].calls <= Len(m) + k /\ Followed(m, i)
    BY <1>1, <1>4, <2>1 DEF Owes
  <2>3. ASSUME NEW j \in 1..Len(a), i < j, j <= i + a[i].calls
        PROVE  a[j].role = "tool"
    <3>1. CASE j = Len(m) + 1
      BY <1>1, <2>1, <3>1 DEF ToolResult
    <3>2. CASE j # Len(m) + 1
      <4>1. Len(m) \in Nat /\ Len(a) = Len(m) + 1
        BY <1>1
      <4>2. j \in 1..Len(m)
        BY <3>2, <4>1
      <4> QED BY <1>1, <2>1, <2>2, <2>3, <4>2 DEF Followed
    <3> QED BY <3>1, <3>2
  <2> QED BY <1>1, <2>1, <2>2, <2>3 DEF Followed
<1>5. \E i \in 1..Len(a) : a[i].role = "assistant" /\ i + a[i].calls = Len(a) + (k - 1)
  BY <1>1, <1>2
<1> QED BY <1>3, <1>4, <1>5 DEF Owes, a

-----------------------------------------------------------------------------
(* Compaction.                                                             *)

\* A bounded set of numbers has a maximum.
LEMMA MaxOfBounded ==
  ASSUME NEW n \in Nat, NEW S \in SUBSET (0..n), S # {}
  PROVE  Max(S) \in S
<1> DEFINE T == {n - i : i \in S}
<1>1. T \subseteq Nat /\ T # {}
  <2>1. \A i \in S : i \in Nat /\ n - i \in Nat
    OBVIOUS
  <2>2. PICK i \in S : TRUE
    OBVIOUS
  <2>3. n - i \in T
    BY <2>2
  <2> QED BY <2>1, <2>3
<1>2. PICK x \in T : \A y \in T : ~ (<<y, x>> \in OpToRel(<, Nat))
  BY <1>1, WFMin, NatLessThanWellFounded
<1>3. \A y \in T : ~ (y < x)
  BY <1>1, <1>2 DEF OpToRel
<1>4. PICK i \in S : x = n - i
  BY <1>2
<1>5. ASSUME NEW j \in S PROVE i >= j
  <2>1. ~ (n - j < n - i)
    BY <1>3, <1>4
  <2> QED BY <2>1
<1> QED BY <1>5 DEF Max

\* What is kept of a transcript, cut in front of a message that is no result.
LEMMA CutOwesNothing ==
  ASSUME NEW m \in Seq(Messages), Owes(m, 0),
         NEW older \in 1..(Len(m) - 1), m[older + 1].role # "tool"
  PROVE  /\ SubSeq(m, older + 1, Len(m)) \in Seq(Messages)
         /\ Owes(SubSeq(m, older + 1, Len(m)), 0)
<1> DEFINE r == SubSeq(m, older + 1, Len(m))
<1>1. Len(m) \in Nat /\ \A i \in 1..Len(m) : m[i] \in Messages /\ m[i].calls \in Nat
  BY Elements
<1>2. /\ r \in Seq(Messages)
      /\ Len(r) = Len(m) - older
      /\ \A i \in 1..Len(r) : r[i] = m[older + i]
  <2>1. /\ r \in Seq(Messages)
        /\ Len(r) = IF older + 1 <= Len(m) THEN Len(m) - (older + 1) + 1 ELSE 0
        /\ \A i \in 1..(Len(m) - (older + 1) + 1) : r[i] = m[(older + 1) + i - 1]
    BY <1>1, SubSeqProperties
  <2> QED BY <1>1, <2>1
<1> HIDE DEF r
<1>3. ASSUME NEW i \in 1..Len(r), r[i].role = "assistant"
      PROVE  i + r[i].calls <= Len(r) + 0 /\ Followed(r, i)
  <2>1. older + i \in 1..Len(m) /\ r[i] = m[older + i]
    BY <1>1, <1>2, <1>3
  <2>2. (older + i) + m[older + i].calls <= Len(m) + 0 /\ Followed(m, older + i)
    BY <1>3, <2>1 DEF Owes
  <2>3. ASSUME NEW j \in 1..Len(r), i < j, j <= i + r[i].calls
        PROVE  r[j].role = "tool"
    <3>1. older + j \in 1..Len(m) /\ r[j] = m[older + j]
      BY <1>1, <1>2, <2>3
    <3>2. older + i < older + j /\ older + j <= (older + i) + m[older + i].calls
      BY <1>1, <2>1, <2>3
    <3> QED BY <2>2, <3>1, <3>2 DEF Followed
  <2>4. i + r[i].calls <= Len(r) + 0
    BY <1>1, <1>2, <2>1, <2>2
  <2> QED BY <2>3, <2>4 DEF Followed
<1>4. ASSUME NEW i \in 1..Len(r), r[i].role = "tool"
      PROVE  /\ r[i].own
             /\ \E k \in 1..(i - 1) : r[k].role = "assistant" /\ k + r[k].calls >= i
  <2>1. older + i \in 1..Len(m) /\ r[i] = m[older + i]
    BY <1>1, <1>2, <1>4
  <2>2. /\ m[older + i].own
        /\ \E k \in 1..(older + i - 1) :
             m[k].role = "assistant" /\ k + m[k].calls >= older + i
    BY <1>4, <2>1 DEF Owes, ResultsAreCalledFor
  <2>3. PICK k \in 1..(older + i - 1) :
          m[k].role = "assistant" /\ k + m[k].calls >= older + i
    BY <2>2
  <2>4. k \in 1..Len(m) /\ m[k].calls \in Nat
    BY <1>1, <2>1
  <2>5. ~(k <= older)
    <3>1. SUFFICES ASSUME k <= older PROVE FALSE
      OBVIOUS
    <3>2. older + 1 \in 1..Len(m) /\ k < older + 1 /\ older + 1 <= k + m[k].calls
      BY <1>1, <2>3, <2>4, <3>1
    <3>3. Followed(m, k)
      BY <2>3, <2>4 DEF Owes
    <3> QED BY <3>2, <3>3 DEF Followed
  <2>6. k - older \in 1..(i - 1) /\ k - older \in 1..Len(r)
    BY <1>1, <1>2, <2>4, <2>5
  <2>7. r[k - older] = m[k]
    BY <1>1, <1>2, <2>4, <2>6
  <2>8. r[k - older].role = "assistant" /\ (k - older) + r[k - older].calls >= i
    BY <2>3, <2>4, <2>7
  <2> QED BY <2>1, <2>2, <2>6, <2>8
<1>5. ResultsAreCalledFor(r)
  BY <1>4 DEF ResultsAreCalledFor
<1> QED BY <1>2, <1>3, <1>5 DEF Owes, r

\* The summary goes in front.
LEMMA PrependUser ==
  ASSUME NEW m \in Seq(Messages), Owes(m, 0)
  PROVE  <<User>> \o m \in Seq(Messages) /\ Owes(<<User>> \o m, 0)
<1> DEFINE p == <<User>> \o m
<1>1. Len(m) \in Nat /\ \A i \in 1..Len(m) : m[i] \in Messages /\ m[i].calls \in Nat
  BY Elements
<1>2. /\ p \in Seq(Messages) /\ Len(p) = 1 + Len(m)
      /\ p[1] = User
      /\ \A i \in 1..Len(m) : p[i + 1] = m[i]
  BY <1>1, MessageTypes
<1>3. ASSUME NEW i \in 1..Len(p)
      PROVE  IF i = 1 THEN p[i] = User ELSE i - 1 \in 1..Len(m) /\ p[i] = m[i - 1]
  BY <1>1, <1>2
<1> HIDE DEF p
<1>4. ASSUME NEW i \in 1..Len(p), p[i].role = "assistant"
      PROVE  i + p[i].calls <= Len(p) + 0 /\ Followed(p, i)
  <2>1. i - 1 \in 1..Len(m) /\ p[i] = m[i - 1]
    BY <1>3, <1>4 DEF User
  <2>2. (i - 1) + m[i - 1].calls <= Len(m) + 0 /\ Followed(m, i - 1)
    BY <1>4, <2>1 DEF Owes
  <2>3. ASSUME NEW j \in 1..Len(p), i < j, j <= i + p[i].calls
        PROVE  p[j].role = "tool"
    <3>1. j - 1 \in 1..Len(m) /\ p[j] = m[j - 1]
      BY <1>3, <2>1, <2>3
    <3>2. i - 1 < j - 1 /\ j - 1 <= (i - 1) + m[i - 1].calls
      BY <1>1, <2>1, <2>3
    <3> QED BY <2>2, <3>1, <3>2 DEF Followed
  <2>4. i + p[i].calls <= Len(p) + 0
    BY <1>1, <1>2, <2>1, <2>2
  <2> QED BY <2>3, <2>4 DEF Followed
<1>5. ASSUME NEW i \in 1..Len(p), p[i].role = "tool"
      PROVE  /\ p[i].own
             /\ \E k \in 1..(i - 1) : p[k].role = "assistant" /\ k + p[k].calls >= i
  <2>1. i - 1 \in 1..Len(m) /\ p[i] = m[i - 1]
    BY <1>3, <1>5 DEF User
  <2>2. m[i - 1].own /\ \E k \in 1..((i - 1) - 1) :
          m[k].role = "assistant" /\ k + m[k].calls >= i - 1
    BY <1>5, <2>1 DEF Owes, ResultsAreCalledFor
  <2>3. PICK k \in 1..((i - 1) - 1) : m[k].role = "assistant" /\ k + m[k].calls >= i - 1
    BY <2>2
  <2>4. k \in 1..Len(m) /\ m[k].calls \in Nat /\ k + 1 \in 1..(i - 1)
    BY <1>1, <2>1
  <2>5. p[k + 1] = m[k]
    BY <1>2, <2>4
  <2>6. p[k + 1].role = "assistant" /\ (k + 1) + p[k + 1].calls >= i
    BY <2>3, <2>4, <2>5
  <2> QED BY <2>1, <2>2, <2>4, <2>6
<1>6. ResultsAreCalledFor(p)
  BY <1>5 DEF ResultsAreCalledFor
<1> QED BY <1>2, <1>4, <1>6 DEF Owes, p

\* Compaction leaves a transcript that owes nothing, wherever it has to cut.
LEMMA CompactOwesNothing ==
  ASSUME NEW m \in Seq(Messages), Owes(m, 0)
  PROVE  Compact(m) \in Seq(Messages) /\ Owes(Compact(m), 0)
<1> DEFINE cuts == {i \in 1..(Len(m) - 1) : i <= Len(m) - Protect /\ m[i + 1].role # "tool"}
           older == ProtectedFrom(m)
           recent == SubSeq(m, older + 1, Len(m))
<1>1. Len(m) \in Nat
  BY Elements
<1>2. older \in {0} \cup cuts
  <2>1. {0} \cup cuts \in SUBSET (0..Len(m)) /\ {0} \cup cuts # {}
    BY <1>1
  <2>2. older = Max({0} \cup cuts)
    BY DEF ProtectedFrom
  <2> HIDE DEF cuts, older
  <2> QED BY <1>1, <2>1, <2>2, MaxOfBounded
<1>3. Compact(m) = IF older = 0 THEN m
                   ELSE IF Head(recent).role = "user" THEN recent ELSE <<User>> \o recent
  BY DEF Compact
<1> HIDE DEF older
<1>4. CASE older = 0
  BY <1>3, <1>4
<1>5. CASE older \in cuts
  <2>1. older \in 1..(Len(m) - 1) /\ m[older + 1].role # "tool"
    BY <1>5
  <2>2. recent \in Seq(Messages) /\ Owes(recent, 0)
    BY <2>1, CutOwesNothing
  <2> HIDE DEF recent
  <2>3. <<User>> \o recent \in Seq(Messages) /\ Owes(<<User>> \o recent, 0)
    BY <2>2, PrependUser
  <2> QED BY <1>3, <2>1, <2>2, <2>3
<1> QED BY <1>2, <1>4, <1>5

-----------------------------------------------------------------------------
(* The invariant.                                                          *)

Places == {"idle", "opening", "asking", "thinking", "calling", "closing", "over"}
Done == {"closing", "over"}

(* What is in memory owes the calls of the latest reply that are still to  *)
(* be executed, and nothing when a turn is anywhere else.                  *)
TurnFits(p, m, calls) ==
  /\ p \in Places /\ m \in Seq(Messages) /\ calls \in Seq(Tools)
  /\ IF p = "calling" THEN calls # <<>> /\ Owes(m, Len(calls)) ELSE Owes(m, 0)

(* A request for a tool is only pending while a turn executes its calls.   *)
RequestFits(q, p) == (q # NoRequest /\ q.kind = "call") => p = "calling"

FilesFit ==
  /\ threads \in [Threads -> Files \cup {NoThread}]
  /\ \A t \in Threads : Exists(t) =>
       /\ Owes(threads[t].messages, 0)
       /\ \A u \in threads[t].turns : place[u] \in Done

TurnsFit ==
  /\ place \in [Turns -> Places]
  /\ messages \in [Turns -> Seq(Messages)]
  /\ todo \in [Turns -> Seq(Tools)]
  /\ loaded \in [Turns -> [turns : SUBSET Turns, archived : {FALSE}]]
  /\ asked = [u \in Turns |-> asked[u]]
  /\ \A u \in Turns :
       /\ TurnFits(place[u], messages[u], todo[u])
       /\ RequestFits(asked[u], place[u])
       /\ \A v \in loaded[u].turns : place[v] \in Done

AgentInv == FilesFit /\ TurnsFit

(* What a step of turn u may do, whichever step it is.                     *)
LoopMoves(u) ==
  \E p, m, calls :
    /\ TurnFits(p, m, calls)
    /\ place[u] \in Done => p \in Done
    /\ place' = [place EXCEPT ![u] = p]
    /\ messages' = [messages EXCEPT ![u] = m]
    /\ todo' = [todo EXCEPT ![u] = calls]

FileMoves(u) ==
  \/ UNCHANGED threads
  \/ /\ place[u] \notin Done /\ place'[u] \in Done
     /\ \E m \in Seq(Messages) :
          /\ Owes(m, 0)
          /\ threads' = [threads EXCEPT ![thread[u]] =
               [turns |-> loaded[u].turns \cup {u}, messages |-> m, archived |-> loaded[u].archived]]

AskMoves(u) ==
  \E q : asked' = [asked EXCEPT ![u] = q] /\ RequestFits(q, place'[u])

LoadMoves(u) ==
  \/ UNCHANGED loaded
  \/ loaded' = [loaded EXCEPT ![u] = NothingLoaded]
  \/ \E t \in Threads :
       /\ Exists(t)
       /\ loaded' = [loaded EXCEPT ![u] = [turns |-> threads[t].turns, archived |-> FALSE]]

Moves(u) == LoopMoves(u) /\ FileMoves(u) /\ AskMoves(u) /\ LoadMoves(u)

\* The invariant holds initially.
LEMMA AgentInit == Init => AgentInv
<1> SUFFICES ASSUME Init PROVE AgentInv
  OBVIOUS
<1>1. Owes(<<>>, 0)
  BY DEF Owes, ResultsAreCalledFor
<1>2. FilesFit
  <2>1. threads \in [Threads -> Files \cup {NoThread}]
    BY StoredAssumption DEF Init
  <2>2. ASSUME NEW t \in Threads, Exists(t)
        PROVE  Owes(threads[t].messages, 0) /\ threads[t].turns = {}
    <3>1. /\ threads[t] \in Files /\ threads[t].turns = {}
          /\ WellFormed(threads[t].messages)
      BY <2>2, StoredAssumption DEF Init, Exists
    <3>2. threads[t].messages \in Seq(Messages)
      BY <3>1 DEF Files
    <3> QED BY <3>1, <3>2, OwesNothing
  <2> QED BY <2>1, <2>2 DEF FilesFit
<1>3. TurnsFit
  BY <1>1 DEF Init, TurnsFit, TurnFits, RequestFits, Places, NothingLoaded
<1> QED BY <1>2, <1>3 DEF AgentInv

\* A step that does what a turn may do keeps the invariant.
LEMMA MovesKeep ==
  ASSUME AgentInv, NEW u \in Turns, Moves(u)
  PROVE  AgentInv'
<1>1. PICK p, m, calls :
        /\ TurnFits(p, m, calls)
        /\ place[u] \in Done => p \in Done
        /\ place' = [place EXCEPT ![u] = p]
        /\ messages' = [messages EXCEPT ![u] = m]
        /\ todo' = [todo EXCEPT ![u] = calls]
  BY DEF Moves, LoopMoves
<1>2. PICK q : asked' = [asked EXCEPT ![u] = q] /\ RequestFits(q, place'[u])
  BY DEF Moves, AskMoves
<1>3. \A v \in Turns : place[v] \in Done => place'[v] \in Done
  BY <1>1 DEF AgentInv, TurnsFit
<1>4. /\ place' \in [Turns -> Places]
      /\ messages' \in [Turns -> Seq(Messages)]
      /\ todo' \in [Turns -> Seq(Tools)]
  BY <1>1 DEF AgentInv, TurnsFit, TurnFits
<1> DEFINE Fits(l) ==
      /\ l \in [Turns -> [turns : SUBSET Turns, archived : {FALSE}]]
      /\ \A v \in Turns : \A w \in l[v].turns : w \in Turns /\ place[w] \in Done
<1>5. Fits(loaded')
  <2>1. CASE UNCHANGED loaded
    BY <2>1 DEF AgentInv, TurnsFit
  <2>2. CASE loaded' = [loaded EXCEPT ![u] = NothingLoaded]
    BY <2>2 DEF AgentInv, TurnsFit, NothingLoaded
  <2>3. ASSUME NEW t \in Threads, Exists(t),
               loaded' = [loaded EXCEPT ![u] = [turns |-> threads[t].turns, archived |-> FALSE]]
        PROVE  Fits(loaded')
    <3>1. threads[t].turns \in SUBSET Turns /\ \A w \in threads[t].turns : place[w] \in Done
      BY <2>3 DEF AgentInv, FilesFit, Exists, Files
    <3> QED BY <2>3, <3>1 DEF AgentInv, TurnsFit
  <2> QED BY <2>1, <2>2, <2>3 DEF Moves, LoadMoves
<1>6. ASSUME NEW v \in Turns
      PROVE  TurnFits(place'[v], messages'[v], todo'[v]) /\ RequestFits(asked'[v], place'[v])
  BY <1>1, <1>2 DEF AgentInv, TurnsFit
<1>7. asked' = [v \in Turns |-> asked'[v]]
  BY <1>2 DEF AgentInv, TurnsFit
<1>8. TurnsFit'
  BY <1>3, <1>4, <1>5, <1>6, <1>7 DEF TurnsFit, TurnFits, RequestFits
<1>9. FilesFit'
  <2>1. CASE UNCHANGED threads
    <3>1. \A t \in Threads : Exists(t) => threads[t].turns \in SUBSET Turns
      BY DEF AgentInv, FilesFit, Exists, Files
    <3> QED BY <1>3, <2>1, <3>1 DEF AgentInv, FilesFit, Exists, Owes, ResultsAreCalledFor, Followed
  <2>2. CASE ~ UNCHANGED threads
    <3>1. PICK n \in Seq(Messages) :
            /\ place'[u] \in Done
            /\ Owes(n, 0)
            /\ threads' = [threads EXCEPT ![thread[u]] =
                 [turns |-> loaded[u].turns \cup {u}, messages |-> n, archived |-> loaded[u].archived]]
      BY <2>2 DEF Moves, FileMoves
    <3> DEFINE f == [turns |-> loaded[u].turns \cup {u}, messages |-> n, archived |-> loaded[u].archived]
    <3>2. /\ f \in Files /\ f.messages = n /\ f.turns = loaded[u].turns \cup {u}
          /\ \A v \in f.turns : v \in Turns /\ place'[v] \in Done
      BY <1>3, <3>1 DEF AgentInv, TurnsFit, Files
    <3> HIDE DEF f
    <3>3. threads' \in [Threads -> Files \cup {NoThread}]
      BY <3>1, <3>2 DEF AgentInv, FilesFit, f
    <3>4. ASSUME NEW t \in Threads, threads'[t] # NoThread
          PROVE  Owes(threads'[t].messages, 0) /\ \A v \in threads'[t].turns : place'[v] \in Done
      <4>1. CASE threads'[t] = f
        BY <3>1, <3>2, <4>1
      <4>2. CASE threads'[t] = threads[t]
        <5>1. /\ threads[t].turns \in SUBSET Turns
              /\ Owes(threads[t].messages, 0)
              /\ \A v \in threads[t].turns : place[v] \in Done
          BY <3>4, <4>2 DEF AgentInv, FilesFit, Exists, Files
        <5> QED BY <1>3, <4>2, <5>1
      <4> QED BY <3>1, <4>1, <4>2 DEF AgentInv, FilesFit, f
    <3> QED BY <3>3, <3>4 DEF FilesFit, Exists, Owes, ResultsAreCalledFor, Followed
  <2> QED BY <2>1, <2>2
<1> QED BY <1>8, <1>9 DEF AgentInv

-----------------------------------------------------------------------------
(* Every step of a turn, or of one of its servers, is one of those moves.  *)

\* Where the loop stays, the move is none.
LEMMA LoopStays ==
  ASSUME AgentInv, NEW u \in Turns, UNCHANGED loopVars
  PROVE  LoopMoves(u)
<1>1. TurnFits(place[u], messages[u], todo[u])
  BY DEF AgentInv, TurnsFit
<1>2. /\ place' = [place EXCEPT ![u] = place[u]]
      /\ messages' = [messages EXCEPT ![u] = messages[u]]
      /\ todo' = [todo EXCEPT ![u] = todo[u]]
  BY DEF AgentInv, TurnsFit, loopVars
<1> QED BY <1>1, <1>2 DEF LoopMoves

\* The transcript of a turn that is not executing calls owes nothing.
LEMMA NotCalling ==
  ASSUME AgentInv, NEW u \in Turns, place[u] # "calling"
  PROVE  messages[u] \in Seq(Messages) /\ Owes(messages[u], 0)
  BY DEF AgentInv, TurnsFit, TurnFits

\* A turn that ends, with or without saving.
LEMMA EndsMoves ==
  ASSUME AgentInv, NEW u \in Turns, Ends(u)
  PROVE  LoopMoves(u) /\ place'[u] = "closing"
<1>1. TurnFits("closing", <<>>, <<>>)
  BY DEF TurnFits, Places, Owes, ResultsAreCalledFor
<1>2. place'[u] = "closing"
  BY DEF Ends, AgentInv, TurnsFit
<1> QED BY <1>1, <1>2 DEF Ends, LoopMoves, Done

LEMMA GivesUpMoves ==
  ASSUME AgentInv, NEW u \in Turns, GivesUp(u)
  PROVE  LoopMoves(u) /\ FileMoves(u)
  BY EndsMoves DEF GivesUp, FileMoves

LEMMA SavesMoves ==
  ASSUME AgentInv, NEW u \in Turns, place[u] \notin Done,
         NEW m \in Seq(Messages), Owes(m, 0), Saves(u, m)
  PROVE  LoopMoves(u) /\ FileMoves(u)
<1>1. Ends(u) /\ LoopMoves(u) /\ place'[u] = "closing"
  BY EndsMoves DEF Saves
<1> QED BY <1>1 DEF Saves, FileMoves, Done

\* A step inside the loop.
LEMMA GoesOn ==
  ASSUME AgentInv, NEW u \in Turns, place[u] \notin Done,
         NEW p, NEW m, NEW calls, TurnFits(p, m, calls),
         place' = [place EXCEPT ![u] = p],
         messages' = [messages EXCEPT ![u] = m],
         todo' = [todo EXCEPT ![u] = calls],
         UNCHANGED threads
  PROVE  LoopMoves(u) /\ FileMoves(u) /\ place'[u] = p
  BY DEF LoopMoves, FileMoves, AgentInv, TurnsFit

LEMMA NextRoundMoves ==
  ASSUME AgentInv, NEW u \in Turns, place[u] \notin Done,
         NEW m \in Seq(Messages), Owes(m, 0), NEW c, NextRound(u, m, c)
  PROVE  LoopMoves(u) /\ FileMoves(u)
<1>1. CASE GivesUp(u)
  BY <1>1, GivesUpMoves
<1>2. CASE ~ GivesUp(u)
  <2>1. TurnFits("asking", m, <<>>)
    BY DEF TurnFits, Places
  <2> QED BY <1>2, <2>1, GoesOn DEF NextRound
<1> QED BY <1>1, <1>2

\* The result of a call.
LEMMA ToolReturnsMoves ==
  ASSUME AgentInv, NEW u \in Turns, place[u] = "calling", NEW c, ToolReturns(u, TRUE, c)
  PROVE  LoopMoves(u) /\ FileMoves(u)
<1> DEFINE m == Append(messages[u], ToolResult(TRUE))
           rest == Tail(todo[u])
<1>1. /\ messages[u] \in Seq(Messages) /\ todo[u] \in Seq(Tools) /\ todo[u] # <<>>
      /\ Owes(messages[u], Len(todo[u]))
  BY DEF AgentInv, TurnsFit, TurnFits
<1>2. rest \in Seq(Tools) /\ Len(rest) = Len(todo[u]) - 1 /\ Len(todo[u]) \in Nat \ {0}
  BY <1>1, HeadTailProperties, EmptySeq, LenProperties
<1>3. m \in Seq(Messages) /\ Owes(m, Len(rest))
  BY <1>1, <1>2, AppendResult, AppendProperties, MessageTypes, ToolResult(TRUE) \in Messages
<1>4. place[u] \notin Done
  BY DEF Done
<1>5. CASE GivesUp(u)
  BY <1>5, GivesUpMoves
<1>6. CASE /\ rest # <<>>
           /\ messages' = [messages EXCEPT ![u] = m]
           /\ todo' = [todo EXCEPT ![u] = rest]
           /\ UNCHANGED <<threads, place>>
  <2>1. TurnFits("calling", m, rest)
    BY <1>2, <1>3, <1>6 DEF TurnFits, Places
  <2>2. place' = [place EXCEPT ![u] = "calling"]
    BY <1>6 DEF AgentInv, TurnsFit
  <2> QED BY <1>4, <1>6, <2>1, <2>2, GoesOn
<1>7. CASE rest = <<>> /\ (Saves(u, m) \/ NextRound(u, m, c))
  <2>1. Owes(m, 0)
    BY <1>3, <1>7
  <2> HIDE DEF m
  <2> QED BY <1>3, <1>4, <1>7, <2>1, SavesMoves, NextRoundMoves
<1> QED BY <1>5, <1>6, <1>7 DEF ToolReturns

\* What a turn asks a server for, or that it asks for nothing.
LEMMA AsksMoves ==
  ASSUME AgentInv, NEW u \in Turns, NEW c, NEW s, NEW kind, Asks(u, c, s, kind),
         kind = "call" => place'[u] = "calling"
  PROVE  AskMoves(u)
<1> DEFINE q == [server |-> s, id |-> c[s].nextId, kind |-> kind]
<1>1. asked' = [asked EXCEPT ![u] = q]
  BY DEF Asks
<1>2. RequestFits(q, place'[u])
  BY DEF RequestFits
<1> QED BY <1>1, <1>2 DEF AskMoves

LEMMA ForgetsMoves ==
  ASSUME NEW u \in Turns, NEW c, Forgets(u, c)
  PROVE  AskMoves(u)
  BY DEF Forgets, AskMoves, RequestFits

\* Requests that stay: there is none, or the turn does not move.
LEMMA AskStays ==
  ASSUME AgentInv, NEW u \in Turns, UNCHANGED asked,
         asked[u] = NoRequest \/ UNCHANGED place \/ place[u] # "calling"
  PROVE  AskMoves(u)
<1>1. asked' = [asked EXCEPT ![u] = asked[u]]
  BY DEF AgentInv, TurnsFit
<1>2. RequestFits(asked[u], place'[u])
  BY DEF AgentInv, TurnsFit, RequestFits
<1> QED BY <1>1, <1>2 DEF AskMoves

\* A request that is settled, in whichever way.
LEMMA SettlesMoves ==
  ASSUME AgentInv, NEW u \in Turns, asked[u] # NoRequest,
         NEW c, NEW ok \in BOOLEAN, Settles(u, c, ok, TRUE)
  PROVE  LoopMoves(u) /\ FileMoves(u) /\ AskMoves(u)
<1>1. CASE Asks(u, c, asked[u].server, "list") /\ UNCHANGED <<threads, loopVars>>
  BY <1>1, LoopStays, AsksMoves DEF FileMoves
<1>2. CASE Forgets(u, c) /\ UNCHANGED <<threads, loopVars>>
  BY <1>2, LoopStays, ForgetsMoves DEF FileMoves
<1>3. CASE Forgets(u, c) /\ GivesUp(u)
  BY <1>3, GivesUpMoves, ForgetsMoves
<1>4. CASE asked[u].kind = "call" /\ Forgets(u, c) /\ ToolReturns(u, TRUE, completion[u])
  <2>1. place[u] = "calling"
    BY <1>4 DEF AgentInv, TurnsFit, RequestFits
  <2> QED BY <1>4, <2>1, ToolReturnsMoves, ForgetsMoves
<1> QED BY <1>1, <1>2, <1>3, <1>4 DEF Settles

LEMMA TurnStepMoves ==
  ASSUME AgentInv, NEW u \in Turns, TurnStep(u)
  PROVE  Moves(u)
<1>0. /\ "calling" \notin Done
      /\ place[u] \in {"asking", "thinking", "opening"} => place[u] \notin Done
  BY DEF Done
<1>1. CASE OpenServer(u)
  <2>1. PICK c, s : Asks(u, c, s, "initialize")
    BY <1>1 DEF OpenServer
  <2>2. UNCHANGED <<threads, loopVars, loaded>>
    BY <1>1 DEF OpenServer, turnVars
  <2> QED BY <2>1, <2>2, AsksMoves, LoopStays DEF Moves, FileMoves, LoadMoves
<1>2. CASE StartAgent(u)
  <2>1. place[u] = "opening" /\ UNCHANGED <<asked, loaded>>
    BY <1>2 DEF StartAgent, turnVars, clientVars
  <2>2. CASE GivesUp(u)
    BY <2>1, <2>2, GivesUpMoves, AskStays DEF Moves, LoadMoves
  <2>3. CASE ~ GivesUp(u)
    <3>1. PICK history \in {messages[u], Compact(messages[u])} :
            messages' = [messages EXCEPT ![u] = Append(history, User)]
      BY <1>2, <2>3 DEF StartAgent
    <3>2. history \in Seq(Messages) /\ Owes(history, 0)
      BY <2>1, NotCalling, CompactOwesNothing
    <3>3. TurnFits("asking", Append(history, User), todo[u])
      BY <3>2, AppendUser, AppendProperties, MessageTypes
         DEF TurnFits, Places, AgentInv, TurnsFit
    <3>4. place' = [place EXCEPT ![u] = "asking"] /\ todo' = [todo EXCEPT ![u] = todo[u]]
          /\ UNCHANGED threads
      BY <1>2, <2>3 DEF StartAgent, AgentInv, TurnsFit
    <3> QED BY <1>0, <2>1, <3>1, <3>3, <3>4, GoesOn, AskStays DEF Moves, LoadMoves
  <2> QED BY <2>2, <2>3
<1>3. CASE Ask(u)
  <2>1. place[u] = "asking" /\ UNCHANGED <<asked, loaded>>
    BY <1>3 DEF Ask, turnVars, clientVars
  <2>2. CASE GivesUp(u)
    BY <2>1, <2>2, GivesUpMoves, AskStays DEF Moves, LoadMoves
  <2>3. CASE ~ GivesUp(u)
    <3>1. PICK m \in {messages[u], Compact(messages[u])} :
            messages' = [messages EXCEPT ![u] =
              IF completion[u] = "rejected" THEN Append(m, User) ELSE m]
      BY <1>3, <2>3 DEF Ask
    <3> DEFINE sent == IF completion[u] = "rejected" THEN Append(m, User) ELSE m
    <3>2. m \in Seq(Messages) /\ Owes(m, 0)
      BY <2>1, NotCalling, CompactOwesNothing
    <3>3. TurnFits("thinking", sent, todo[u])
      <4>1. Append(m, User) \in Seq(Messages) /\ Owes(Append(m, User), 0)
        BY <3>2, AppendUser, AppendProperties, MessageTypes
      <4> QED BY <3>2, <4>1 DEF TurnFits, Places, AgentInv, TurnsFit
    <3>4. place' = [place EXCEPT ![u] = "thinking"] /\ todo' = [todo EXCEPT ![u] = todo[u]]
          /\ UNCHANGED threads
      BY <1>3, <2>3 DEF Ask, AgentInv, TurnsFit
    <3> QED BY <1>0, <2>1, <3>1, <3>3, <3>4, GoesOn, AskStays DEF Moves, LoadMoves
  <2> QED BY <2>2, <2>3
<1>4. CASE NoReply(u)
  BY <1>4, GivesUpMoves, AskStays DEF NoReply, Moves, LoadMoves, turnVars, clientVars
<1>5. CASE FinalReply(u)
  <2> DEFINE m == Append(messages[u], Assistant(0))
  <2>1. place[u] = "thinking" /\ UNCHANGED <<asked, loaded>>
    BY <1>5 DEF FinalReply, turnVars, clientVars
  <2>2. m \in Seq(Messages) /\ Owes(m, 0)
    BY <2>1, NotCalling, AppendAssistant, AppendProperties, MessageTypes, 0 \in Nat
  <2>3. Append(m, User) \in Seq(Messages) /\ Owes(Append(m, User), 0)
    BY <2>2, AppendUser, AppendProperties, MessageTypes
  <2>4. NextRound(u, Append(m, User), completion[u]) \/ Saves(u, m)
    BY <1>5 DEF FinalReply
  <2> HIDE DEF m
  <2> QED BY <1>0, <2>1, <2>2, <2>3, <2>4, NextRoundMoves, SavesMoves, AskStays
          DEF Moves, LoadMoves
<1>6. ASSUME NEW calls \in Replies[u], CallingReply(u, calls)
      PROVE  Moves(u)
  <2>1. place[u] = "thinking" /\ UNCHANGED <<asked, loaded>>
    BY <1>6 DEF CallingReply, turnVars, clientVars
  <2>2. CASE GivesUp(u)
    BY <2>1, <2>2, GivesUpMoves, AskStays DEF Moves, LoadMoves
  <2>3. CASE ~ GivesUp(u)
    <3> DEFINE m == Append(messages[u], Assistant(Len(calls)))
    <3>1. calls \in Seq(Tools) /\ calls # <<>> /\ Len(calls) \in Nat
      BY <1>6, RepliesAssumption, LenProperties
    <3>2. m \in Seq(Messages) /\ Owes(m, Len(calls))
      BY <2>1, <3>1, NotCalling, AppendAssistant, AppendProperties, MessageTypes
    <3>3. TurnFits("calling", m, calls)
      BY <3>1, <3>2 DEF TurnFits, Places
    <3>4. /\ place' = [place EXCEPT ![u] = "calling"]
          /\ messages' = [messages EXCEPT ![u] = m]
          /\ todo' = [todo EXCEPT ![u] = calls]
          /\ UNCHANGED threads
      BY <1>6, <2>3 DEF CallingReply
    <3> HIDE DEF m
    <3> QED BY <1>0, <2>1, <3>3, <3>4, GoesOn, AskStays DEF Moves, LoadMoves
  <2> QED BY <2>2, <2>3
<1>7. CASE Execute(u)
  <2>1. place[u] = "calling" /\ asked[u] = NoRequest /\ UNCHANGED loaded
    BY <1>7 DEF Execute, turnVars
  <2>2. CASE (\E c : ToolReturns(u, TRUE, c)) /\ UNCHANGED clientVars
    BY <2>1, <2>2, ToolReturnsMoves, AskStays DEF Moves, LoadMoves, clientVars
  <2>3. CASE Asks(u, client[u], Head(todo[u]), "call") /\ UNCHANGED <<threads, loopVars>>
    <3>1. place'[u] = "calling"
      BY <2>1, <2>3 DEF loopVars
    <3> QED BY <2>1, <2>3, <3>1, LoopStays, AsksMoves DEF Moves, FileMoves, LoadMoves
  <2> QED BY <1>7, <2>2, <2>3 DEF Execute
<1>8. CASE RequestTimesOut(u)
  BY <1>8, SettlesMoves DEF RequestTimesOut, Moves, LoadMoves, turnVars
<1>9. CASE CloseServer(u)
  BY <1>9, LoopStays, AskStays DEF CloseServer, Moves, FileMoves, LoadMoves, turnVars, loopVars
<1>10. CASE Finish(u)
  <2>1. /\ place[u] = "closing" /\ place' = [place EXCEPT ![u] = "over"]
        /\ UNCHANGED <<threads, messages, todo, asked>>
        /\ loaded' = [loaded EXCEPT ![u] = NothingLoaded]
    BY <1>10 DEF Finish
  <2>2. TurnFits("over", messages[u], todo[u])
    BY <2>1 DEF AgentInv, TurnsFit, TurnFits, Places
  <2>3. /\ messages' = [messages EXCEPT ![u] = messages[u]]
        /\ todo' = [todo EXCEPT ![u] = todo[u]]
    BY <2>1 DEF AgentInv, TurnsFit
  <2>4. LoopMoves(u)
    BY <2>1, <2>2, <2>3 DEF LoopMoves, Done
  <2> QED BY <2>1, <2>4, AskStays DEF Moves, FileMoves, LoadMoves
<1> QED BY <1>1, <1>2, <1>3, <1>4, <1>5, <1>6, <1>7, <1>8, <1>9, <1>10 DEF TurnStep

LEMMA ServerStepMoves ==
  ASSUME AgentInv, NEW u \in Turns, ServerStep(u)
  PROVE  Moves(u)
<1>1. ASSUME NEW s, NEW id, ServerAnswers(u, s, id)
      PROVE  Moves(u)
  <2>1. UNCHANGED loaded
    BY <1>1 DEF ServerAnswers, turnVars
  <2>2. CASE Pending(u, s, id)
    <3>1. asked[u] # NoRequest /\ (asked[u].id = id) = TRUE
      BY <2>2 DEF Pending, Waits
    <3>2. PICK c : \E ok \in BOOLEAN : Settles(u, c, ok, TRUE)
      BY <1>1, <2>2, <3>1 DEF ServerAnswers
    <3> QED BY <2>1, <3>1, <3>2, SettlesMoves DEF Moves, LoadMoves
  <2>3. CASE UNCHANGED <<threads, loopVars, asked>>
    BY <2>1, <2>3, LoopStays, AskStays DEF Moves, FileMoves, LoadMoves, loopVars
  <2> QED BY <1>1, <2>2, <2>3 DEF ServerAnswers
<1>2. ASSUME NEW s, InvalidJson(u, s)
      PROVE  Moves(u)
  BY <1>2, SettlesMoves DEF InvalidJson, Waits, Moves, LoadMoves, turnVars
<1>3. ASSUME NEW s, ServerExits(u, s)
      PROVE  Moves(u)
  <2>1. UNCHANGED loaded
    BY <1>3 DEF ServerExits, turnVars
  <2>2. CASE Waits(u, s)
    <3>1. PICK c : Settles(u, c, FALSE, TRUE)
      BY <1>3, <2>2 DEF ServerExits
    <3> QED BY <2>1, <2>2, <3>1, SettlesMoves DEF Waits, Moves, LoadMoves
  <2>3. CASE UNCHANGED <<threads, loopVars, asked>>
    BY <2>1, <2>3, LoopStays, AskStays DEF Moves, FileMoves, LoadMoves, loopVars
  <2> QED BY <1>3, <2>2, <2>3 DEF ServerExits
<1> QED BY <1>1, <1>2, <1>3 DEF ServerStep

\* A turn that begins, on a stored thread or on a new one.
LEMMA OpensMoves ==
  ASSUME AgentInv, NEW u \in Turns, NEW t \in Threads, Continue(u, t) \/ Create(u, t)
  PROVE  Moves(u)
<1>1. PICK l, m :
        /\ Opens(u, t, l, m)
        /\ \/ l = NothingLoaded /\ m = <<>>
           \/ /\ Exists(t) /\ m = threads[t].messages
              /\ l = [turns |-> threads[t].turns, archived |-> FALSE]
  BY DEF Continue, Create
<1>2. /\ place[u] = "idle" /\ place' = [place EXCEPT ![u] = "opening"]
      /\ loaded' = [loaded EXCEPT ![u] = l] /\ messages' = [messages EXCEPT ![u] = m]
      /\ UNCHANGED <<threads, todo, asked>>
  BY <1>1 DEF Opens, clientVars
<1>3. m \in Seq(Messages) /\ Owes(m, 0)
  <2>1. CASE m = <<>>
    BY <2>1 DEF Owes, ResultsAreCalledFor
  <2>2. CASE Exists(t) /\ m = threads[t].messages
    BY <2>2 DEF AgentInv, FilesFit, Exists, Files
  <2> QED BY <1>1, <2>1, <2>2
<1>4. TurnFits("opening", m, todo[u])
  BY <1>3 DEF TurnFits, Places, AgentInv, TurnsFit
<1>5. todo' = [todo EXCEPT ![u] = todo[u]] /\ place[u] \notin Done
  BY <1>2 DEF AgentInv, TurnsFit, Done
<1>6. LoopMoves(u) /\ FileMoves(u)
  BY <1>2, <1>4, <1>5, GoesOn
<1>7. LoadMoves(u)
  BY <1>1, <1>2 DEF LoadMoves
<1> QED BY <1>2, <1>6, <1>7, AskStays DEF Moves

-----------------------------------------------------------------------------
(* The steps of the threads, and the theorems.                             *)

\* The turns do not notice what `threads archive` and `threads fork` do.
LEMMA TurnsUntouched ==
  ASSUME AgentInv, UNCHANGED <<place, messages, todo, loaded, asked>>
  PROVE  TurnsFit'
<1>1. ASSUME NEW u \in Turns
      PROVE  /\ TurnFits(place'[u], messages'[u], todo'[u])
             /\ RequestFits(asked'[u], place'[u])
             /\ \A v \in loaded'[u].turns : place'[v] \in Done
  BY DEF AgentInv, TurnsFit
<1>2. /\ place' \in [Turns -> Places]
      /\ messages' \in [Turns -> Seq(Messages)]
      /\ todo' \in [Turns -> Seq(Tools)]
      /\ loaded' \in [Turns -> [turns : SUBSET Turns, archived : {FALSE}]]
      /\ asked' = [u \in Turns |-> asked'[u]]
  BY DEF AgentInv, TurnsFit
<1> QED BY <1>1, <1>2 DEF TurnsFit, TurnFits, RequestFits

LEMMA ThreadStepsKeep ==
  ASSUME AgentInv, NEW t \in Threads,
         Archive(t) \/ \E n \in Threads : Fork(t, n)
  PROVE  AgentInv'
<1>1. Exists(t) /\ UNCHANGED <<place, messages, todo, loaded, asked>>
  BY DEF Archive, Fork, loopVars, turnVars, clientVars
<1>2. /\ threads[t] \in Files
      /\ Owes(threads[t].messages, 0)
      /\ \A u \in threads[t].turns : place[u] \in Done
  BY <1>1 DEF AgentInv, FilesFit, Exists
<1>3. PICK n \in Threads, b \in BOOLEAN :
        threads' = [threads EXCEPT ![n] = [threads[t] EXCEPT !.archived = b]]
  BY DEF Archive, Fork
<1> DEFINE f == [threads[t] EXCEPT !.archived = b]
<1>4. f \in Files /\ f.messages = threads[t].messages /\ f.turns = threads[t].turns
  BY <1>2 DEF Files
<1>5. threads' \in [Threads -> Files \cup {NoThread}]
  BY <1>3, <1>4 DEF AgentInv, FilesFit
<1>6. ASSUME NEW s \in Threads, threads'[s] # NoThread
      PROVE  Owes(threads'[s].messages, 0) /\ \A u \in threads'[s].turns : place'[u] \in Done
  <2>1. CASE s = n
    <3>1. threads'[s] = f
      BY <1>3, <2>1 DEF AgentInv, FilesFit
    <3> HIDE DEF f
    <3> QED BY <1>1, <1>2, <1>4, <3>1
  <2>2. CASE s # n
    <3>1. threads'[s] = threads[s]
      BY <1>3, <2>2 DEF AgentInv, FilesFit
    <3> QED BY <1>1, <1>6, <3>1 DEF AgentInv, FilesFit, Exists
  <2> QED BY <2>1, <2>2
<1>7. FilesFit'
  BY <1>5, <1>6 DEF FilesFit, Exists, Owes, ResultsAreCalledFor, Followed
<1> QED BY <1>1, <1>7, TurnsUntouched DEF AgentInv

LEMMA AgentNext == AgentInv /\ [Next]_vars => AgentInv'
<1> SUFFICES ASSUME AgentInv, [Next]_vars PROVE AgentInv'
  OBVIOUS
<1>1. ASSUME NEW u \in Turns, NEW t \in Threads, Continue(u, t) \/ Create(u, t)
      PROVE  AgentInv'
  BY <1>1, OpensMoves, MovesKeep
<1>2. ASSUME NEW u \in Turns, TurnStep(u) \/ ServerStep(u)
      PROVE  AgentInv'
  BY <1>2, TurnStepMoves, ServerStepMoves, MovesKeep
<1>3. CASE UNCHANGED <<threads, loopVars, turnVars, clientVars>>
  <2>1. UNCHANGED <<threads, place, messages, todo, loaded, asked>>
    BY <1>3 DEF loopVars, turnVars, clientVars
  <2>2. FilesFit'
    BY <2>1 DEF AgentInv, FilesFit, Exists, Owes, ResultsAreCalledFor, Followed
  <2> QED BY <2>1, <2>2, TurnsUntouched DEF AgentInv
<1>4. ASSUME NEW t \in Threads, Archive(t) \/ \E n \in Threads : Fork(t, n)
      PROVE  AgentInv'
  BY <1>4, ThreadStepsKeep
<1> QED BY <1>1, <1>2, <1>3, <1>4 DEF Next, Abort, vars

THEOREM AgentInvariant == Spec => []AgentInv
  BY AgentInit, AgentNext, PTL DEF Spec

(* What vos-agent stores and sends to the model is well formed, however    *)
(* turns are compacted, aborted and let down by their servers.             *)
THEOREM TranscriptsAreWellFormed == Spec => []TranscriptsWellFormed
<1>1. AgentInv => TranscriptsWellFormed
  <2> SUFFICES ASSUME AgentInv PROVE TranscriptsWellFormed
    OBVIOUS
  <2>1. ASSUME NEW t \in Threads, Exists(t) PROVE WellFormed(threads[t].messages)
    <3>1. threads[t].messages \in Seq(Messages) /\ Owes(threads[t].messages, 0)
      BY <2>1 DEF AgentInv, FilesFit, Exists, Files
    <3> QED BY <3>1, OwesNothing
  <2>2. ASSUME NEW u \in Turns, place[u] = "thinking" PROVE WellFormed(messages[u])
    <3>1. messages[u] \in Seq(Messages) /\ Owes(messages[u], 0)
      BY <2>2, NotCalling
    <3> QED BY <3>1, OwesNothing
  <2> QED BY <2>1, <2>2 DEF TranscriptsWellFormed
<1> QED BY <1>1, AgentInvariant, PTL

KeepsTurns(t) ==
  Exists(t) /\ threads'[t] # threads[t] =>
    \/ threads'[t] = [threads[t] EXCEPT !.archived = TRUE]
    \/ \E u \in Turns :
         /\ thread[u] = t /\ u \in threads'[t].turns \ threads[t].turns
         /\ threads[t].archived => ~loaded[u].archived
         /\ threads[t].turns \cap loaded[u].turns \subseteq threads'[t].turns

\* The one write of a turn adds it to the thread, for the first time.
LEMMA FileMovesKeepTurns ==
  ASSUME AgentInv, NEW u \in Turns, FileMoves(u), NEW t \in Threads
  PROVE  KeepsTurns(t)
<1> SUFFICES ASSUME Exists(t), threads'[t] # threads[t]
             PROVE  /\ thread[u] = t /\ u \in threads'[t].turns \ threads[t].turns
                    /\ ~loaded[u].archived
                    /\ threads[t].turns \cap loaded[u].turns \subseteq threads'[t].turns
  BY DEF KeepsTurns
<1>1. PICK m \in Seq(Messages) :
        threads' = [threads EXCEPT ![thread[u]] =
          [turns |-> loaded[u].turns \cup {u}, messages |-> m, archived |-> loaded[u].archived]]
  BY DEF FileMoves
<1>2. thread[u] = t /\ threads'[t].turns = loaded[u].turns \cup {u}
  BY <1>1 DEF AgentInv, FilesFit
<1>3. u \notin threads[t].turns
  BY DEF FileMoves, AgentInv, FilesFit
<1>4. loaded[u].archived = FALSE
  BY DEF AgentInv, TurnsFit
<1> QED BY <1>2, <1>3, <1>4

(* An archived thread is written only by a turn that loaded it before, and *)
(* only turns that a writing turn had not loaded are ever lost from one.   *)
THEOREM ThreadsLoseNoLoadedTurn == Spec => ThreadsKeepTurns
<1>1. ASSUME AgentInv, [Next]_vars, NEW t \in Threads
      PROVE  KeepsTurns(t)
  <2>1. ASSUME NEW u \in Turns, NEW s \in Threads, Continue(u, s) \/ Create(u, s)
        PROVE  KeepsTurns(t)
    BY <1>1, <2>1, OpensMoves, FileMovesKeepTurns DEF Moves
  <2>2. ASSUME NEW u \in Turns, TurnStep(u) \/ ServerStep(u)
        PROVE  KeepsTurns(t)
    BY <1>1, <2>2, TurnStepMoves, ServerStepMoves, FileMovesKeepTurns DEF Moves
  <2>3. CASE UNCHANGED threads
    BY <2>3 DEF KeepsTurns
  <2>4. ASSUME NEW s \in Threads, Archive(s)
        PROVE  KeepsTurns(t)
    BY <1>1, <2>4 DEF Archive, KeepsTurns, AgentInv, FilesFit
  <2>5. ASSUME NEW s \in Threads, NEW n \in Threads, Fork(s, n)
        PROVE  KeepsTurns(t)
    BY <1>1, <2>5 DEF Fork, Fresh, Exists, KeepsTurns, AgentInv, FilesFit
  <2> QED BY <1>1, <2>1, <2>2, <2>3, <2>4, <2>5 DEF Next, Abort, vars
<1>2. AgentInv /\ [Next]_vars =>
        [\A t \in Threads : Exists(t) /\ threads'[t] # threads[t] =>
           \/ threads'[t] = [threads[t] EXCEPT !.archived = TRUE]
           \/ \E u \in Turns :
                /\ thread[u] = t /\ u \in threads'[t].turns \ threads[t].turns
                /\ threads[t].archived => ~loaded[u].archived
                /\ threads[t].turns \cap loaded[u].turns \subseteq threads'[t].turns]_vars
  BY <1>1 DEF KeepsTurns
<1> QED BY <1>2, AgentInvariant, PTL DEF Spec, ThreadsKeepTurns
=============================================================================
