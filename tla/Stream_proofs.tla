---------------------------- MODULE Stream_proofs ---------------------------
(***************************************************************************)
(* What the relay of Stream writes, for every set of texts, every relation *)
(* Prefix and streams of any length.  The inductive invariant says what    *)
(* each state of the processor knows: whether a line is held back, which   *)
(* lines have been written, and where the content is that has not been.    *)
(***************************************************************************)
EXTENDS Stream, TLAPS

USE MaxLinesAssumption

\* How far the processor is, and that it writes and holds what it has seen.
BoundInv ==
  /\ Len(lines) <= processed + 1
  /\ pc = "process" => Len(lines) = processed + 1
  /\ pc \in {"loop", "read"} => Len(lines) = processed
  /\ out \in Seq(Processed)
  /\ buffer \in 0..processed

\* What each state means.
StateInv ==
  /\ pc # "done" => state # "Terminating"
  /\ state \in {"Initial", "NormalFlow"} => buffer = 0
  /\ state = "Stuttering" => buffer # 0
  /\ buffer # 0 => Content(buffer) /\ \A k \in Processed : buffer < k => ~Content(k)
  /\ state = "Initial" => \A k \in Processed : ~Content(k)

\* What has been written in each state.
OutInv ==
  /\ state = "Initial" => out = << >>
  /\ buffer # 0 => \A k \in DOMAIN out : ~Content(out[k]) /\ Type(out[k]) # "Done"
  /\ state # "Terminating" => \A k \in DOMAIN out : Type(out[k]) # "Done"

DeliveryInv == ~DebugMode /\ pc # "done" => delivered = Len(out)

\* What is known of the lines written, dropped and held back.
RelayInv ==
  /\ StateInv
  /\ OutInv
  /\ TerminatesForCause
  /\ DoneComesLast
  /\ ContentInOrder
  /\ NothingDroppedOnceResolved
  /\ ContentAccountedFor
  /\ DoneEndsRelay

IInv == TypeOK /\ BoundInv /\ DeliveryInv /\ RelayInv

-----------------------------------------------------------------------------
(* Lines and sequences. *)

LEMMA LineTypes ==
  ASSUME TypeOK, NEW i \in Received
  PROVE  /\ Type(i) \in {"Empty", "Unknown", "Done", "Malformed", "Data"}
         /\ Content(i) => Type(i) = "Data"
BY DEF TypeOK, Received, Type, Content, HasContent, Parse, Line

LEMMA Widened ==
  ASSUME NEW m \in Nat, NEW n \in Nat, m <= n, NEW s \in Seq(1..m)
  PROVE  s \in Seq(1..n)
OBVIOUS

\* The lines seen so far, the counters and the indices are what they should be.
LEMMA Basics ==
  ASSUME TypeOK, BoundInv
  PROVE  /\ Len(lines) \in Nat /\ processed \in Nat /\ processed <= Len(lines)
         /\ Received = 1..Len(lines) /\ buffer \in Nat
         /\ Processed = 1..processed /\ Processed \subseteq Received
         /\ DOMAIN out = 1..Len(out) /\ Len(out) \in Nat
         /\ \A k \in DOMAIN out : out[k] \in Processed
         /\ \A i \in Received : i \notin Processed => i = Len(lines)
BY DEF TypeOK, BoundInv, Received, Processed

-----------------------------------------------------------------------------
(* Steps that write nothing. *)

\* Reading a line, or none, leaves the lines read before as they are.
LEMMA LinesStay ==
  ASSUME TypeOK, NEW line \in Line, lines' = Append(lines, line)
  PROVE  /\ lines' \in Seq(Line) /\ Len(lines') = Len(lines) + 1
         /\ Received \subseteq Received' /\ Len(lines) \in Nat
         /\ \A i \in Received : lines'[i] = lines[i]
BY DEF TypeOK, Received

\* Only the last line can be one that the processor has not been given.
LEMMA LastLine ==
  ASSUME TypeOK', BoundInv'
  PROVE  \A k \in Received' : k \notin Processed' => k = Len(lines')
<1>1. lines' \in Seq(Line) /\ processed' \in 0..Len(lines')
  BY DEF TypeOK
<1>2. Len(lines') <= processed' + 1
  BY DEF BoundInv
<1>3. Len(lines') \in Nat /\ processed' \in Nat
  BY <1>1
<1>4. Received' = 1..Len(lines') /\ Processed' = 1..processed'
  BY DEF Received, Processed
<1>5. ASSUME NEW k \in 1..Len(lines'), k \notin 1..processed' PROVE k = Len(lines')
  <2>1. k \in Nat /\ k >= 1 /\ k <= Len(lines')
    BY <1>3, <1>5
  <2>2. ~(k <= processed')
    BY <1>3, <1>5, <2>1
  <2> QED
    BY <1>2, <1>3, <2>1, <2>2
<1> QED
  BY <1>4, <1>5

\* The loop turns, reads or returns, or a line without content is skipped:
\* what has been written and what is held back stays.
LEMMA QuietStep ==
  ASSUME IInv, UNCHANGED <<buffer, out>>,
         state' = state \/ (state' = "Terminating" /\ Cancelled'),
         pc' # "done" => state' = state /\ pc # "done",
         pc = "done" => pc' = "done" /\ delivered' = delivered,
         Cancelled => Cancelled', TypeOK', BoundInv',
         \A k \in Processed' : Content(k)' \/ Type(k)' = "Done" => k \in Processed,
         Received \subseteq Received', Processed \subseteq Processed',
         \A i \in Received : lines'[i] = lines[i]
  PROVE  RelayInv'
<1>1. \A i \in Received : (Content(i)' <=> Content(i)) /\ Type(i)' = Type(i)
  BY DEF Content, Type
<1>2. /\ \A k \in DOMAIN out : out[k] \in Received
      /\ buffer # 0 => buffer \in Received
      /\ Processed \subseteq Received
      /\ DOMAIN out = 1..Len(out) /\ Len(out) \in Nat
  BY Basics DEF IInv, BoundInv
<1>0. RelayInv
  BY DEF IInv
<1>3. StateInv'
  BY <1>0, <1>1, <1>2 DEF RelayInv, StateInv
<1>4. OutInv'
  BY <1>0, <1>1, <1>2 DEF RelayInv, OutInv
<1>5. TerminatesForCause'
  <2> SUFFICES ASSUME state' = "Terminating", ~Cancelled'
               PROVE  out' # << >> /\ Type(out[Len(out)])' = "Done"
    BY Zenon DEF TerminatesForCause
  <2>1. out # << >> /\ Type(out[Len(out)]) = "Done"
    BY <1>0 DEF RelayInv, TerminatesForCause
  <2>2. out[Len(out)] \in Received
    BY <1>2, <2>1 DEF IInv, TypeOK
  <2>3. lines'[out[Len(out)]] = lines[out[Len(out)]]
    BY <2>2
  <2> QED
    BY <2>1, <2>3 DEF Type
<1>6. DoneComesLast' /\ ContentInOrder'
  BY <1>0, <1>1, <1>2 DEF RelayInv, DoneComesLast, ContentInOrder
<1>7. \A i : Sent(i)' <=> Sent(i)
  BY DEF Sent
<1>8. NothingDroppedOnceResolved'
  BY <1>0, <1>1, <1>2, <1>7 DEF RelayInv, NothingDroppedOnceResolved
<1>9. ContentAccountedFor'
  <2> SUFFICES ASSUME NEW i \in Processed', Content(i)', ~Sent(i)'
               PROVE  Superseded(i)' \/ HeldBack(i)'
    <3>1. \A k \in Received' : k \notin Processed' => k = Len(lines')
      BY LastLine
    <3> QED
      BY <3>1 DEF ContentAccountedFor
  <2>1. i \in Processed /\ i \in Received /\ Content(i) /\ ~Sent(i)
    BY <1>1, <1>2, <1>7
  <2>2. Superseded(i) \/ HeldBack(i)
    BY <1>0, <2>1 DEF RelayInv, ContentAccountedFor
  <2>3. CASE Superseded(i)
    <3>1. PICK j \in Processed :
            /\ i < j /\ Content(j)
            /\ \A k \in Processed : i < k /\ k < j => ~Content(k)
            /\ IsStillStuttering(i, j)
      BY <2>3 DEF Superseded
    <3>2. IsStillStuttering(i, j)'
      BY <1>2, <2>1, <3>1 DEF IsStillStuttering
    <3>3. j \in Processed' /\ Content(j)'
      BY <1>1, <1>2, <3>1
    <3>4. \A k \in Processed' : i < k /\ k < j => ~Content(k)'
      BY <1>1, <1>2, <3>1
    <3> QED
      BY <3>1, <3>2, <3>3, <3>4 DEF Superseded
  <2>4. CASE HeldBack(i)
    BY <1>1, <1>2, <2>4 DEF HeldBack
  <2> QED
    BY <2>2, <2>3, <2>4
<1>10. DoneEndsRelay'
  <2> SUFFICES ASSUME NEW i \in Processed', Type(i)' = "Done"
               PROVE  pc' = "done" /\ out # << >> /\ out[Len(out)] = i /\ delivered' = Len(out)
    BY DEF DoneEndsRelay
  <2>1. i \in Processed /\ Type(i) = "Done"
    BY <1>1, <1>2
  <2> QED
    BY <1>0, <2>1 DEF RelayInv, DoneEndsRelay
<1> QED
  BY <1>3, <1>4, <1>5, <1>6, <1>8, <1>9, <1>10 DEF RelayInv

-----------------------------------------------------------------------------
(* Steps of ProcessLine on line i. *)

LEMMA ProcessBasics ==
  ASSUME IInv, pc = "process", UNCHANGED lines, processed' = Len(lines),
         NEW i, i = Len(lines)
  PROVE  /\ i \in Nat /\ i >= 1 /\ i \in Received
         /\ Received = 1..i /\ Received' = 1..i
         /\ Processed = 1..(i - 1) /\ Processed' = 1..i
         /\ out \in Seq(1..(i - 1)) /\ buffer \in 0..(i - 1)
         /\ DOMAIN out = 1..Len(out) /\ Len(out) \in Nat
         /\ \A k \in 1..Len(out) : out[k] \in 1..(i - 1)
         /\ \A k : (Content(k)' <=> Content(k)) /\ Type(k)' = Type(k)
         /\ RelayInv /\ TypeOK /\ state # "Terminating"
         /\ \A k \in Processed : Type(k) # "Done"
<1>1. /\ i \in Nat /\ i >= 1 /\ i \in Received
      /\ Received = 1..i /\ Received' = 1..i
      /\ Processed = 1..(i - 1) /\ Processed' = 1..i /\ processed = i - 1
  BY DEF IInv, TypeOK, BoundInv, Received, Processed
<1>2. out \in Seq(1..(i - 1)) /\ buffer \in 0..(i - 1)
  BY <1>1 DEF IInv, BoundInv
<1>3. \A k : (Content(k)' <=> Content(k)) /\ Type(k)' = Type(k)
  BY DEF Content, Type
<1>4. /\ RelayInv /\ TypeOK /\ state # "Terminating"
      /\ \A k \in Processed : Type(k) # "Done"
  BY DEF IInv, RelayInv, StateInv, DoneEndsRelay
<1> QED
  BY <1>1, <1>2, <1>3, <1>4

\* A chunk that has been superseded stays so.
LEMMA WitnessesStay ==
  ASSUME IInv, pc = "process", UNCHANGED lines, processed' = Len(lines),
         NEW a \in Processed, Content(a), ~Sent(a), a # buffer
  PROVE  Superseded(a)'
<1>1. PICK i : i = Len(lines)
  OBVIOUS
<1>2. /\ i \in Nat /\ Processed = 1..(i - 1) /\ Processed' = 1..i /\ Received = 1..i
      /\ \A k : Content(k)' <=> Content(k)
  BY <1>1, ProcessBasics
<1>3. Superseded(a)
  BY <1>2 DEF IInv, RelayInv, ContentAccountedFor, HeldBack
<1>4. PICK j \in Processed :
        /\ a < j /\ Content(j)
        /\ \A k \in Processed : a < k /\ k < j => ~Content(k)
        /\ IsStillStuttering(a, j)
  BY <1>3 DEF Superseded
<1>5. IsStillStuttering(a, j)'
  BY <1>4 DEF IsStillStuttering
<1>6. j \in Processed' /\ \A k \in Processed' : a < k /\ k < j => ~Content(k)'
  BY <1>2, <1>4
<1> QED
  BY <1>2, <1>4, <1>5, <1>6 DEF Superseded

\* A content chunk is held back, the first or in place of one it repeats.
LEMMA HoldStep ==
  ASSUME IInv, pc = "process", UNCHANGED <<lines, out>>, NEW i, i = Len(lines),
         processed' = i,
         pc' = "loop", state \in {"Initial", "Stuttering"}, state' = "Stuttering",
         buffer' = i, Content(i), buffer # 0 => IsStillStuttering(buffer, i)
  PROVE  RelayInv'
<1>1. /\ i \in Nat /\ i >= 1 /\ i \in Received
      /\ Received = 1..i /\ Received' = 1..i /\ Processed = 1..(i - 1) /\ Processed' = 1..i
      /\ buffer \in 0..(i - 1)
      /\ \A k : (Content(k)' <=> Content(k)) /\ Type(k)' = Type(k)
      /\ StateInv /\ OutInv /\ ContentInOrder
      /\ \A k \in Processed : Type(k) # "Done"
  BY ProcessBasics DEF RelayInv
<1>2. /\ \A k \in DOMAIN out : ~Content(out[k]) /\ Type(out[k]) # "Done"
      /\ \A k : Sent(k)' <=> Sent(k)
  BY <1>1 DEF StateInv, OutInv, Sent
<1>3. StateInv'
  BY <1>1 DEF StateInv
<1>4. OutInv' /\ TerminatesForCause' /\ DoneComesLast' /\ ContentInOrder'
  BY <1>1, <1>2 DEF OutInv, TerminatesForCause, DoneComesLast, ContentInOrder
<1>5. NothingDroppedOnceResolved'
  BY <1>1, <1>2 DEF NothingDroppedOnceResolved, Sent
<1>6. ContentAccountedFor'
  <2> SUFFICES ASSUME NEW a \in Processed', Content(a), ~Sent(a)
               PROVE  Superseded(a)' \/ HeldBack(a)'
    BY <1>1, <1>2 DEF ContentAccountedFor
  <2>1. CASE a = i
    BY <1>1, <1>2, <2>1 DEF HeldBack
  <2>2. CASE a # i /\ a # buffer
    BY <1>1, <2>2, WitnessesStay
  <2>3. CASE a # i /\ a = buffer
    <3>1. IsStillStuttering(a, i)'
      BY <1>1, <2>3 DEF IsStillStuttering
    <3>2. \A k \in Processed' : a < k /\ k < i => ~Content(k)
      BY <1>1, <2>3 DEF StateInv
    <3> QED
      BY <1>1, <2>3, <3>1, <3>2 DEF Superseded
  <2> QED
    BY <2>1, <2>2, <2>3
<1>7. DoneEndsRelay'
  <2>1. Type(i) # "Done"
    BY <1>1, LineTypes DEF IInv
  <2> QED
    BY <1>1, <2>1 DEF DoneEndsRelay
<1> QED
  BY <1>3, <1>4, <1>5, <1>6, <1>7 DEF RelayInv

\* A line is written and the stream goes on.
LEMMA ForwardStep ==
  ASSUME IInv, pc = "process", UNCHANGED <<lines, buffer>>, NEW i, i = Len(lines),
         processed' = i,
         pc' = "loop", out' = Append(out, i), Type(i) # "Done",
         \/ state = "Stuttering" /\ state' = "Stuttering" /\ ~Content(i)
         \/ state \in {"Initial", "NormalFlow"} /\ state' = "NormalFlow"
  PROVE  RelayInv'
<1>1. /\ i \in Nat /\ i >= 1 /\ i \in Received
      /\ Received = 1..i /\ Received' = 1..i /\ Processed = 1..(i - 1) /\ Processed' = 1..i
      /\ buffer \in 0..(i - 1)
      /\ out \in Seq(1..(i - 1)) /\ DOMAIN out = 1..Len(out) /\ Len(out) \in Nat
      /\ \A k \in 1..Len(out) : out[k] \in 1..(i - 1)
      /\ \A k : (Content(k)' <=> Content(k)) /\ Type(k)' = Type(k)
      /\ StateInv /\ OutInv /\ ContentInOrder /\ NothingDroppedOnceResolved /\ TypeOK
      /\ \A k \in Processed : Type(k) # "Done"
  BY ProcessBasics DEF RelayInv
<1>2. /\ DOMAIN out' = 1..(Len(out) + 1) /\ Len(out') = Len(out) + 1
      /\ \A k \in 1..Len(out) : out'[k] = out[k]
      /\ out'[Len(out) + 1] = i
  BY <1>1
<1>3. \A k : Sent(k)' <=> Sent(k) \/ k = i
  <2>1. \A k : Sent(k)' <=> \E j \in 1..(Len(out) + 1) : out'[j] = k
    BY <1>2 DEF Sent
  <2>2. \A k : Sent(k) <=> \E j \in 1..Len(out) : out[j] = k
    BY <1>1 DEF Sent
  <2>3. Len(out) + 1 \in 1..(Len(out) + 1) /\ 1..Len(out) \subseteq 1..(Len(out) + 1)
    BY <1>1
  <2>4. \A j \in 1..(Len(out) + 1) : j \in 1..Len(out) \/ j = Len(out) + 1
    BY <1>1
  <2> QED
    BY <1>2, <2>1, <2>2, <2>3, <2>4, Zenon
<1>4. StateInv'
  BY <1>1 DEF StateInv
<1>5. \A k \in DOMAIN out' : Type(out'[k]) # "Done"
  BY <1>1, <1>2 DEF OutInv
<1>6. buffer # 0 => ~Content(i) /\ \A k \in DOMAIN out' : ~Content(out'[k])
  BY <1>1, <1>2 DEF StateInv, OutInv
<1>7. OutInv' /\ TerminatesForCause' /\ DoneComesLast'
  BY <1>1, <1>5, <1>6 DEF OutInv, TerminatesForCause, DoneComesLast
<1>8. ContentInOrder'
  <2> SUFFICES ASSUME NEW j \in DOMAIN out', NEW k \in DOMAIN out', j < k,
                      Content(out'[j]), Content(out'[k])
               PROVE  out'[j] < out'[k]
    BY <1>1 DEF ContentInOrder
  <2>1. CASE k = Len(out) + 1
    BY <1>1, <1>2, <2>1
  <2>2. CASE k # Len(out) + 1
    BY <1>1, <1>2, <2>2 DEF ContentInOrder
  <2> QED
    BY <2>1, <2>2
<1>9. NothingDroppedOnceResolved'
  BY <1>1, <1>3 DEF NothingDroppedOnceResolved
<1>10. ContentAccountedFor'
  <2> SUFFICES ASSUME NEW a \in Processed', Content(a), ~Sent(a)'
               PROVE  Superseded(a)' \/ HeldBack(a)'
    BY <1>1 DEF ContentAccountedFor
  <2>1. a \in Processed /\ ~Sent(a)
    BY <1>1, <1>3
  <2>2. CASE a # buffer
    BY <2>1, <2>2, WitnessesStay
  <2>3. CASE a = buffer
    <3>1. \A k \in Processed' : a < k => ~Content(k)
      BY <1>1, <1>6, <2>3 DEF StateInv
    <3>2. buffer # 0
      BY <1>1, <2>1, <2>3
    <3> QED
      BY <1>1, <1>5, <1>6, <2>3, <3>1, <3>2 DEF HeldBack
  <2> QED
    BY <2>2, <2>3
<1>11. DoneEndsRelay'
  BY <1>1 DEF DoneEndsRelay
<1> QED
  BY <1>4, <1>7, <1>8, <1>9, <1>10, <1>11 DEF RelayInv

\* [DONE] arrives with nothing held back.
LEMMA DoneStep ==
  ASSUME IInv, pc = "process", UNCHANGED <<lines, buffer>>, NEW i, i = Len(lines),
         processed' = i,
         pc' = "done", out' = Append(out, i), delivered' = Len(out'), Type(i) = "Done",
         state \in {"Initial", "NormalFlow"}, state' = "Terminating"
  PROVE  RelayInv'
<1>1. /\ i \in Nat /\ i >= 1 /\ i \in Received
      /\ Received = 1..i /\ Received' = 1..i /\ Processed = 1..(i - 1) /\ Processed' = 1..i
      /\ out \in Seq(1..(i - 1)) /\ DOMAIN out = 1..Len(out) /\ Len(out) \in Nat
      /\ \A k \in 1..Len(out) : out[k] \in 1..(i - 1)
      /\ \A k : (Content(k)' <=> Content(k)) /\ Type(k)' = Type(k)
      /\ StateInv /\ OutInv /\ ContentInOrder /\ NothingDroppedOnceResolved /\ TypeOK
      /\ \A k \in Processed : Type(k) # "Done"
  BY ProcessBasics DEF RelayInv
<1>2. /\ DOMAIN out' = 1..(Len(out) + 1) /\ Len(out') = Len(out) + 1
      /\ \A k \in 1..Len(out) : out'[k] = out[k]
      /\ out'[Len(out) + 1] = i
  BY <1>1
<1>3. \A k : Sent(k)' <=> Sent(k) \/ k = i
  <2>1. \A k : Sent(k)' <=> \E j \in 1..(Len(out) + 1) : out'[j] = k
    BY <1>2 DEF Sent
  <2>2. \A k : Sent(k) <=> \E j \in 1..Len(out) : out[j] = k
    BY <1>1 DEF Sent
  <2>3. Len(out) + 1 \in 1..(Len(out) + 1) /\ 1..Len(out) \subseteq 1..(Len(out) + 1)
    BY <1>1
  <2>4. \A j \in 1..(Len(out) + 1) : j \in 1..Len(out) \/ j = Len(out) + 1
    BY <1>1
  <2> QED
    BY <1>2, <2>1, <2>2, <2>3, <2>4, Zenon
<1>4. buffer = 0 /\ buffer' = 0
  BY <1>1 DEF StateInv
<1>5. StateInv' /\ OutInv'
  BY <1>4 DEF StateInv, OutInv
<1>6. TerminatesForCause'
  <2>1. out'[Len(out')] = i /\ out' # << >>
    <3>1. Len(out') # 0 /\ out'[Len(out')] = i
      BY <1>1, <1>2
    <3> QED
      BY <3>1
  <2> QED
    BY <1>1, <2>1 DEF TerminatesForCause
<1>7. DoneComesLast'
  BY <1>1, <1>2, <1>4 DEF DoneComesLast, OutInv
<1>8. ContentInOrder'
  <2> SUFFICES ASSUME NEW j \in DOMAIN out', NEW k \in DOMAIN out', j < k,
                      Content(out'[j]), Content(out'[k])
               PROVE  out'[j] < out'[k]
    BY <1>1 DEF ContentInOrder
  <2>1. CASE k = Len(out) + 1
    BY <1>1, <1>2, <2>1
  <2>2. CASE k # Len(out) + 1
    BY <1>1, <1>2, <2>2 DEF ContentInOrder
  <2> QED
    BY <2>1, <2>2
<1>9. ~Content(i)
  BY <1>1, LineTypes
<1>10. NothingDroppedOnceResolved'
  <2> SUFFICES ASSUME NEW a \in Processed', NEW c \in Processed', Content(a), Content(c),
                      a < c, Sent(a)'
               PROVE  Sent(c)
    BY <1>1, <1>3 DEF NothingDroppedOnceResolved
  <2>1. a \in Processed /\ c \in Processed /\ Sent(a)
    BY <1>1, <1>3, <1>9
  <2> QED
    BY <1>1, <2>1 DEF NothingDroppedOnceResolved
<1>11. ContentAccountedFor'
  <2> SUFFICES ASSUME NEW a \in Processed', Content(a), ~Sent(a)'
               PROVE  Superseded(a)'
    BY <1>1 DEF ContentAccountedFor
  <2>1. a \in Processed /\ ~Sent(a) /\ a # buffer
    BY <1>1, <1>3, <1>4
  <2> QED
    BY <2>1, WitnessesStay
<1>12. DoneEndsRelay'
  BY <1>1, <1>2 DEF DoneEndsRelay
<1> QED
  BY <1>5, <1>6, <1>7, <1>8, <1>10, <1>11, <1>12 DEF RelayInv

\* The chunk held back is written before the one that resolves the stuttering,
\* or before [DONE].
LEMMA FlushStep ==
  ASSUME IInv, pc = "process", UNCHANGED lines, NEW i, i = Len(lines),
         processed' = i, NEW b, b = buffer, state = "Stuttering",
         out' = Append(Append(out, b), i), buffer' = 0,
         \/ Content(i) /\ state' = "NormalFlow" /\ pc' = "loop"
         \/ /\ Type(i) = "Done" /\ state' = "Terminating"
            /\ pc' = "done" /\ delivered' = Len(out')
  PROVE  RelayInv'
<1>1. /\ i \in Nat /\ i >= 1 /\ i \in Received
      /\ Received = 1..i /\ Received' = 1..i /\ Processed = 1..(i - 1) /\ Processed' = 1..i
      /\ out \in Seq(1..(i - 1)) /\ DOMAIN out = 1..Len(out) /\ Len(out) \in Nat
      /\ \A k \in 1..Len(out) : out[k] \in 1..(i - 1)
      /\ \A k : (Content(k)' <=> Content(k)) /\ Type(k)' = Type(k)
      /\ StateInv /\ OutInv /\ ContentInOrder /\ NothingDroppedOnceResolved /\ TypeOK
      /\ \A k \in Processed : Type(k) # "Done"
  BY ProcessBasics DEF RelayInv
<1>2. /\ b \in 1..(i - 1) /\ Content(b) /\ b \in Received
      /\ \A k \in Processed : b < k => ~Content(k)
      /\ \A k \in 1..Len(out) : ~Content(out[k]) /\ Type(out[k]) # "Done"
  <2>1. buffer \in 0..(i - 1)
    BY ProcessBasics
  <2>2. b # 0 /\ Content(b)
    BY <1>1 DEF StateInv
  <2>3. \A k \in Processed : b < k => ~Content(k)
    BY <1>1 DEF StateInv
  <2>4. \A k \in 1..Len(out) : ~Content(out[k]) /\ Type(out[k]) # "Done"
    BY <1>1 DEF StateInv, OutInv
  <2> QED
    BY <1>1, <2>1, <2>2, <2>3, <2>4
<1>3. Type(b) = "Data" /\ (Content(i) => Type(i) = "Data")
  BY <1>1, <1>2, LineTypes
<1>4. /\ DOMAIN out' = 1..(Len(out) + 2) /\ Len(out') = Len(out) + 2
      /\ \A k \in 1..Len(out) : out'[k] = out[k]
      /\ out'[Len(out) + 1] = b /\ out'[Len(out) + 2] = i
  <2>1. Append(out, b) \in Seq(1..(i - 1)) /\ Len(Append(out, b)) = Len(out) + 1
    BY <1>1, <1>2
  <2>2. /\ \A k \in 1..Len(out) : Append(out, b)[k] = out[k]
        /\ Append(out, b)[Len(out) + 1] = b
    BY <1>1, <1>2
  <2> QED
    BY <1>1, <2>1, <2>2
<1>5. \A k : Sent(k)' <=> Sent(k) \/ k = b \/ k = i
  <2>1. \A k : Sent(k)' <=> \E j \in 1..(Len(out) + 2) : out'[j] = k
    BY <1>4 DEF Sent
  <2>2. \A k : Sent(k) <=> \E j \in 1..Len(out) : out[j] = k
    BY <1>1 DEF Sent
  <2>3. /\ Len(out) + 1 \in 1..(Len(out) + 2) /\ Len(out) + 2 \in 1..(Len(out) + 2)
        /\ 1..Len(out) \subseteq 1..(Len(out) + 2)
    BY <1>1
  <2>0. Len(out) \in Nat
    BY <1>1
  <2>4. \A j \in 1..(Len(out) + 2) : j \in 1..Len(out) \/ j = Len(out) + 1 \/ j = Len(out) + 2
    BY <2>0
  <2> QED
    BY <1>4, <2>1, <2>2, <2>3, <2>4, Zenon
<1>6. \A k : Sent(k) => ~Content(k)
  BY <1>1, <1>2 DEF Sent
<1>7. \A k \in DOMAIN out' : k # Len(out') => Type(out'[k]) # "Done"
  <2> SUFFICES ASSUME NEW k \in 1..(Len(out) + 2), k # Len(out) + 2
               PROVE  Type(out'[k]) # "Done"
    BY <1>4
  <2>1. CASE k = Len(out) + 1
    BY <1>3, <1>4, <2>1
  <2>2. CASE k # Len(out) + 1
    <3>1. k \in 1..Len(out)
      BY <1>1, <2>2
    <3> QED
      BY <1>2, <1>4, <3>1
  <2> QED
    BY <2>1, <2>2
<1>8. StateInv' /\ OutInv'
  <2>1. StateInv'
    BY DEF StateInv
  <2>2. state' = "NormalFlow" => \A k \in DOMAIN out' : Type(out'[k]) # "Done"
    BY <1>3, <1>4, <1>7
  <2> QED
    BY <1>1, <2>1, <2>2 DEF OutInv
<1>9. TerminatesForCause' /\ DoneComesLast'
  <2>1. /\ state' = "Terminating" => Type(i) = "Done"
        /\ out'[Len(out')] = i /\ out' # << >>
    <3>1. Len(out') # 0 /\ out'[Len(out')] = i
      BY <1>1, <1>4
    <3> QED
      BY <1>1, <3>1
  <2> QED
    BY <1>1, <1>7, <2>1 DEF TerminatesForCause, DoneComesLast
<1>10. ContentInOrder'
  <2> SUFFICES ASSUME NEW j \in DOMAIN out', NEW k \in DOMAIN out', j < k,
                      Content(out'[j]), Content(out'[k])
               PROVE  out'[j] < out'[k]
    BY <1>1 DEF ContentInOrder
  <2>1. j = Len(out) + 1 /\ k = Len(out) + 2
    BY <1>1, <1>2, <1>4
  <2> QED
    BY <1>1, <1>2, <1>4, <2>1
<1>11. NothingDroppedOnceResolved'
  <2> SUFFICES ASSUME NEW a \in Processed', NEW c \in Processed', Content(a), Content(c),
                      a < c, Sent(a)'
               PROVE  c = b \/ c = i
    BY <1>1, <1>5 DEF NothingDroppedOnceResolved
  <2>1. a = b \/ a = i
    BY <1>5, <1>6
  <2> QED
    BY <1>1, <1>2, <2>1
<1>12. ContentAccountedFor'
  <2> SUFFICES ASSUME NEW a \in Processed', Content(a), ~Sent(a)'
               PROVE  Superseded(a)'
    BY <1>1 DEF ContentAccountedFor
  <2>1. a \in Processed /\ ~Sent(a) /\ a # buffer
    BY <1>1, <1>5
  <2> QED
    BY <2>1, WitnessesStay
<1>13. DoneEndsRelay'
  BY <1>1, <1>3, <1>4 DEF DoneEndsRelay
<1> QED
  BY <1>8, <1>9, <1>10, <1>11, <1>12, <1>13 DEF RelayInv

-----------------------------------------------------------------------------
(* Types, bounds and what has been handed to the connection. *)

Plain == TypeOK /\ BoundInv /\ DeliveryInv

LEMMA InitIInv == Init => IInv
<1> SUFFICES ASSUME Init PROVE IInv
  OBVIOUS
<1>0. lines \in Seq(Line) /\ out \in Seq(Received) /\ Len(lines) = 0 /\ Len(out) = 0
  BY DEF Init
<1>1. TypeOK /\ BoundInv /\ DeliveryInv
  <2>1. TypeOK
    <3>1. /\ Len(lines) <= MaxLines /\ delivered \in 0..Len(out) /\ errorCount \in Nat
          /\ processed \in 0..Len(lines)
      BY <1>0 DEF Init
    <3>2. buffer \in Received \cup {0} /\ state \in States /\ result \in Results
      BY DEF Init, States, Results
    <3>3. pc \in {"loop", "read", "process", "done"} /\ clientGone \in BOOLEAN
      BY DEF Init
    <3> QED
      BY <1>0, <3>1, <3>2, <3>3, Zenon DEF TypeOK
  <2>2. BoundInv
    BY <1>0 DEF Init, BoundInv, Processed
  <2> QED
    BY <1>0, <2>1, <2>2 DEF Init, DeliveryInv
<1>2. StateInv /\ OutInv /\ TerminatesForCause /\ DoneComesLast
  BY DEF Init, StateInv, OutInv, TerminatesForCause, DoneComesLast, Processed, Received
<1>3. /\ ContentInOrder /\ NothingDroppedOnceResolved
      /\ ContentAccountedFor /\ DoneEndsRelay
  BY DEF Init, ContentInOrder, NothingDroppedOnceResolved, ContentAccountedFor,
         DoneEndsRelay, Processed, Received
<1> QED
  BY <1>1, <1>2, <1>3 DEF IInv, RelayInv

LEMMA CheckContextStep ==
  ASSUME IInv, CheckContext
  PROVE  IInv'
<1>1. Plain'
  BY DEF IInv, CheckContext, Return, Plain, TypeOK, BoundInv, DeliveryInv, Processed, Received,
         Results
<1>2. RelayInv'
  BY <1>1, QuietStep, Basics DEF IInv, CheckContext, Return, Cancelled, Processed, Received,
         Plain
<1> QED
  BY <1>1, <1>2 DEF IInv, Plain

LEMMA ReadLineStep ==
  ASSUME IInv, ReadLine
  PROVE  IInv'
<1>1. PICK line \in Line : lines' = Append(lines, line)
  BY DEF ReadLine
<1>2. /\ lines' \in Seq(Line) /\ Len(lines') = Len(lines) + 1
      /\ Received \subseteq Received' /\ Len(lines) \in Nat
      /\ \A i \in Received : lines'[i] = lines[i]
  BY <1>1, LinesStay DEF IInv
<1>3. Len(lines) < MaxLines /\ pc = "read" /\ pc' = "process"
      /\ UNCHANGED <<processed, state, buffer, errorCount, out, delivered, result, clientGone>>
  BY DEF ReadLine
<1>4. Plain'
  <2>1. BoundInv'
    BY <1>2, <1>3 DEF IInv, BoundInv, Processed
  <2>2. TypeOK'
    BY <1>2, <1>3, <2>1 DEF IInv, TypeOK, Received
  <2> QED
    BY <1>3, <2>1, <2>2 DEF IInv, Plain, DeliveryInv
<1>5. RelayInv'
  BY <1>2, <1>3, <1>4, QuietStep DEF IInv, Processed, Received, Cancelled, Plain
<1> QED
  BY <1>4, <1>5 DEF IInv, Plain

LEMMA ReadEOFStep ==
  ASSUME IInv, ReadEOF
  PROVE  IInv'
<1>1. /\ lines' \in Seq(Line) /\ Len(lines') \in {Len(lines), Len(lines) + 1}
      /\ Len(lines') <= MaxLines
      /\ Received \subseteq Received' /\ Len(lines) \in Nat
      /\ \A i \in Received : lines'[i] = lines[i]
  <2>1. CASE UNCHANGED lines
    BY <2>1 DEF IInv, TypeOK, Received
  <2>2. CASE Len(lines) < MaxLines /\ \E line \in Line : lines' = Append(lines, line)
    <3>1. PICK line \in Line : lines' = Append(lines, line)
      BY <2>2
    <3>2. /\ lines' \in Seq(Line) /\ Len(lines') = Len(lines) + 1
          /\ Received \subseteq Received' /\ Len(lines) \in Nat
          /\ \A i \in Received : lines'[i] = lines[i]
      BY <3>1, LinesStay DEF IInv
    <3>3. Len(lines') <= MaxLines
      BY <2>2, <3>2
    <3> QED
      BY <3>2, <3>3
  <2> QED
    BY <2>1, <2>2 DEF ReadEOF
<1>2. /\ pc = "read" /\ pc' = "done" /\ delivered' = Len(out) /\ result' = "ok"
      /\ UNCHANGED <<processed, state, buffer, errorCount, out, clientGone>>
  BY DEF ReadEOF, Return
<1>3. Plain'
  <2>1. BoundInv'
    BY <1>1, <1>2, Widened DEF IInv, BoundInv, Processed
  <2>2. TypeOK'
    BY <1>1, <1>2, <2>1 DEF IInv, TypeOK, Received, BoundInv, Processed, Results
  <2> QED
    BY <1>2, <2>1, <2>2 DEF Plain, DeliveryInv
<1>4. RelayInv'
  BY <1>1, <1>2, <1>3, QuietStep DEF IInv, Processed, Received, Cancelled, Plain
<1> QED
  BY <1>3, <1>4 DEF IInv, Plain

LEMMA ReadFailsStep ==
  ASSUME IInv, ReadFails
  PROVE  IInv'
<1>1. Plain'
  BY DEF IInv, ReadFails, Return, Plain, TypeOK, BoundInv, DeliveryInv, Processed, Received,
         Results
<1>2. RelayInv'
  BY <1>1, QuietStep, Basics DEF IInv, ReadFails, Return, Cancelled, Processed, Received,
         Plain
<1> QED
  BY <1>1, <1>2 DEF IInv, Plain

LEMMA ProcessCancelledStep ==
  ASSUME IInv, ProcessCancelled
  PROVE  IInv'
<1>1. Plain'
  <2>1. BoundInv'
    BY Widened DEF IInv, ProcessCancelled, Return, BoundInv, Processed, TypeOK
  <2> QED
    BY <2>1 DEF IInv, ProcessCancelled, Goto, Return, Plain, TypeOK, DeliveryInv, Received,
                Results, States
<1>2. RelayInv'
  BY <1>1, QuietStep, Basics DEF IInv, ProcessCancelled, Goto, Return, Cancelled, Processed,
         Received, Plain
<1> QED
  BY <1>1, <1>2 DEF IInv, Plain

LEMMA DisconnectStep ==
  ASSUME IInv, Disconnect
  PROVE  IInv'
<1>1. Plain'
  BY DEF IInv, Disconnect, Plain, TypeOK, BoundInv, DeliveryInv, Processed, Received
<1>2. RelayInv'
  <2>1. Cancelled => Cancelled'
    BY DEF Cancelled, Disconnect
  <2> QED
    BY <1>1, <2>1, QuietStep DEF Disconnect, Processed, Received, Plain
<1> QED
  BY <1>1, <1>2 DEF IInv, Plain

\* What ProcessLine does with line i: it skips it, holds it back, writes it
\* and goes on, or ends with [DONE]; or it writes what it held back, and i.
LEMMA Outcomes ==
  ASSUME IInv, ProcessLine, NEW i, i = Len(lines), NEW b, b = buffer
  PROVE  \/ /\ UNCHANGED <<state, buffer, out, delivered>>
            /\ ~Content(i) /\ Type(i) # "Done" /\ pc' = "loop"
         \/ /\ UNCHANGED <<out, delivered>>
            /\ pc' = "loop" /\ state \in {"Initial", "Stuttering"} /\ state' = "Stuttering"
            /\ buffer' = i /\ Content(i)
            /\ buffer # 0 => IsStillStuttering(buffer, i)
         \/ /\ out' = Append(out, i) /\ UNCHANGED buffer /\ Flush
            /\ pc' = "loop" /\ Type(i) # "Done"
            /\ \/ state = "Stuttering" /\ state' = "Stuttering" /\ ~Content(i)
               \/ state \in {"Initial", "NormalFlow"} /\ state' = "NormalFlow"
         \/ /\ out' = Append(out, i) /\ UNCHANGED buffer /\ Return("ok")
            /\ Type(i) = "Done"
            /\ state \in {"Initial", "NormalFlow"} /\ state' = "Terminating"
         \/ /\ state = "Stuttering" /\ buffer # 0
            /\ out' = Append(Append(out, b), i) /\ buffer' = 0
            /\ \/ Content(i) /\ state' = "NormalFlow" /\ pc' = "loop" /\ Flush
               \/ Type(i) = "Done" /\ state' = "Terminating" /\ Return("ok")
<1>1. /\ pc = "process" /\ i = Current /\ state # "Terminating"
      /\ Content(i) => Type(i) = "Data"
      /\ state \in {"Initial", "NormalFlow"} => buffer = 0
      /\ state = "Stuttering" => buffer # 0
  <2>1. TypeOK /\ i \in Received /\ pc = "process" /\ UNCHANGED lines
    BY DEF IInv, TypeOK, BoundInv, Received, ProcessLine
  <2> QED
    BY <2>1, LineTypes DEF IInv, RelayInv, StateInv, Current
<1>2. /\ state' = "Terminating" => Return("ok")
      /\ state' # "Terminating" => pc' = "loop"
  BY DEF ProcessLine, Continue
<1>3. ASSUME HandleChunkError(i) \/ Skip, ~Content(i), Type(i) # "Done"
      PROVE  /\ UNCHANGED <<state, buffer, out, delivered>>
             /\ ~Content(i) /\ Type(i) # "Done" /\ pc' = "loop"
  BY <1>1, <1>2, <1>3 DEF HandleChunkError, Skip
<1>4. CASE HandleInitialChunk(i)
  BY <1>1, <1>2, <1>3, <1>4 DEF HandleInitialChunk, Forward, Goto
<1>5. CASE HandleStutteringChunk(i)
  BY <1>1, <1>2, <1>3, <1>5 DEF HandleStutteringChunk, Forward, FlushAndForward, Goto
<1>6. CASE HandleNormalChunk(i)
  BY <1>1, <1>2, <1>3, <1>6 DEF HandleNormalChunk, Forward, Goto
<1> QED
  BY <1>1, <1>4, <1>5, <1>6 DEF ProcessLine

LEMMA ProcessPlain ==
  ASSUME IInv, ProcessLine
  PROVE  Plain'
<1>1. PICK i, b : i = Len(lines) /\ b = buffer
  OBVIOUS
<1>2. /\ i \in Nat /\ i >= 1 /\ out \in Seq(1..(i - 1)) /\ b \in 0..(i - 1)
      /\ Len(out) \in Nat
  BY <1>1, ProcessBasics DEF ProcessLine, Current
<1>3. /\ Append(out, i) \in Seq(1..i) /\ out \in Seq(1..i)
      /\ b # 0 => Append(Append(out, b), i) \in Seq(1..i)
      /\ Len(Append(out, i)) = Len(out) + 1
      /\ Len(Append(Append(out, b), i)) = Len(out) + 2
  <2>1. out \in Seq(1..i) /\ i \in 1..i
    BY <1>2, Widened
  <2> QED
    BY <1>2, <2>1
<1>4. /\ UNCHANGED <<lines, clientGone>> /\ processed' = i /\ Len(lines) <= MaxLines /\ lines \in Seq(Line)
      /\ clientGone \in BOOLEAN /\ delivered \in 0..Len(out)
      /\ ~DebugMode => delivered = Len(out)
  BY <1>1 DEF IInv, TypeOK, ProcessLine, Current, DeliveryInv
<1>5. errorCount' \in Nat
  BY DEF IInv, TypeOK, ProcessLine, HandleInitialChunk, HandleStutteringChunk,
         HandleNormalChunk, HandleChunkError, Skip
<1>6. /\ out' \in Seq(1..i) /\ Len(out') \in Nat /\ buffer' \in 0..i /\ state' \in States
      /\ \/ UNCHANGED <<out, delivered>> /\ pc' = "loop"
         \/ Flush /\ pc' = "loop" /\ Len(out) <= Len(out')
         \/ Return("ok")
  <2>0. /\ i \in 1..i /\ 0 \in 0..i /\ i \in 0..i /\ b \in 0..i
        /\ b = buffer /\ state \in States /\ "Stuttering" \in States
        /\ "NormalFlow" \in States /\ "Terminating" \in States
        /\ out \in Seq(1..i) /\ Len(out) \in Nat
    BY <1>1, <1>2, <1>3 DEF IInv, TypeOK, States
  <2>1. CASE /\ UNCHANGED <<state, buffer, out, delivered>>
             /\ ~Content(i) /\ Type(i) # "Done" /\ pc' = "loop"
    BY <2>0, <2>1
  <2>2. CASE /\ UNCHANGED <<out, delivered>>
             /\ pc' = "loop" /\ state \in {"Initial", "Stuttering"} /\ state' = "Stuttering"
             /\ buffer' = i /\ Content(i)
             /\ buffer # 0 => IsStillStuttering(buffer, i)
    BY <2>0, <2>2
  <2>3. CASE /\ out' = Append(out, i) /\ UNCHANGED buffer /\ Flush
             /\ pc' = "loop" /\ Type(i) # "Done"
             /\ \/ state = "Stuttering" /\ state' = "Stuttering" /\ ~Content(i)
                \/ state \in {"Initial", "NormalFlow"} /\ state' = "NormalFlow"
    BY <1>3, <2>0, <2>3
  <2>4. CASE /\ out' = Append(out, i) /\ UNCHANGED buffer /\ Return("ok")
             /\ Type(i) = "Done"
             /\ state \in {"Initial", "NormalFlow"} /\ state' = "Terminating"
    BY <1>3, <2>0, <2>4
  <2>5. CASE /\ state = "Stuttering" /\ buffer # 0
             /\ out' = Append(Append(out, b), i) /\ buffer' = 0
             /\ \/ Content(i) /\ state' = "NormalFlow" /\ pc' = "loop" /\ Flush
                \/ Type(i) = "Done" /\ state' = "Terminating" /\ Return("ok")
    BY <1>3, <2>0, <2>5
  <2> QED
    BY <1>1, <2>1, <2>2, <2>3, <2>4, <2>5, Outcomes
<1>7. /\ \/ pc' = "loop" /\ result' = result
         \/ pc' = "done" /\ result' = "ok"
      /\ result \in Results
  BY DEF IInv, TypeOK, ProcessLine, Continue, Return
<1>8. /\ delivered' \in 0..Len(out')
      /\ ~DebugMode /\ pc' # "done" => delivered' = Len(out')
  BY <1>4, <1>6 DEF Flush, Return, DebugModeAssumption
<1>9. BoundInv'
  BY <1>1, <1>2, <1>4, <1>6, <1>7 DEF BoundInv, Processed
<1>10. TypeOK'
  <2>1. /\ Received' = 1..i /\ lines' \in Seq(Line) /\ Len(lines') <= MaxLines
        /\ processed' \in 0..Len(lines')
    BY <1>1, <1>2, <1>4 DEF Received
  <2>2. /\ buffer' \in Received' \cup {0} /\ out' \in Seq(Received')
        /\ state' \in States /\ errorCount' \in Nat /\ delivered' \in 0..Len(out')
    BY <1>2, <1>5, <1>6, <1>8, <2>1
  <2>3. pc' \in {"loop", "read", "process", "done"} /\ result' \in Results
    BY <1>7 DEF Results
  <2>4. clientGone' \in BOOLEAN
    BY <1>4, Zenon
  <2> QED
    BY <2>1, <2>2, <2>3, <2>4, Zenon DEF TypeOK
<1> QED
  BY <1>8, <1>9, <1>10 DEF Plain, DeliveryInv

LEMMA ProcessRelay ==
  ASSUME IInv, ProcessLine
  PROVE  RelayInv'
<1>1. PICK i, b : i = Len(lines) /\ b = buffer
  OBVIOUS
<1>2. pc = "process" /\ UNCHANGED lines /\ processed' = Len(lines)
  BY DEF ProcessLine, Current
<1>3. /\ Received' = Received /\ Processed \subseteq Processed'
      /\ \A k \in Processed' : k \in Processed \/ k = i
      /\ \A k : (Content(k)' <=> Content(k)) /\ Type(k)' = Type(k)
  BY <1>1, <1>2, ProcessBasics
<1>4. CASE /\ UNCHANGED <<state, buffer, out, delivered>>
           /\ ~Content(i) /\ Type(i) # "Done" /\ pc' = "loop"
  BY <1>2, <1>3, <1>4, QuietStep, ProcessPlain DEF Cancelled, ProcessLine, Plain
<1>5. CASE /\ UNCHANGED <<out, delivered>>
           /\ pc' = "loop" /\ state \in {"Initial", "Stuttering"} /\ state' = "Stuttering"
           /\ buffer' = i /\ Content(i)
           /\ buffer # 0 => IsStillStuttering(buffer, i)
  BY <1>1, <1>2, <1>5, HoldStep
<1>6. CASE /\ out' = Append(out, i) /\ UNCHANGED buffer /\ Flush
           /\ pc' = "loop" /\ Type(i) # "Done"
           /\ \/ state = "Stuttering" /\ state' = "Stuttering" /\ ~Content(i)
              \/ state \in {"Initial", "NormalFlow"} /\ state' = "NormalFlow"
  BY <1>1, <1>2, <1>6, ForwardStep
<1>7. CASE /\ out' = Append(out, i) /\ UNCHANGED buffer /\ Return("ok")
           /\ Type(i) = "Done"
           /\ state \in {"Initial", "NormalFlow"} /\ state' = "Terminating"
  BY <1>1, <1>2, <1>7, DoneStep DEF Return
<1>8. CASE /\ state = "Stuttering" /\ buffer # 0
           /\ out' = Append(Append(out, b), i) /\ buffer' = 0
           /\ \/ Content(i) /\ state' = "NormalFlow" /\ pc' = "loop" /\ Flush
              \/ Type(i) = "Done" /\ state' = "Terminating" /\ Return("ok")
  BY <1>1, <1>2, <1>8, FlushStep DEF Return
<1> QED
  BY <1>1, <1>4, <1>5, <1>6, <1>7, <1>8, Outcomes

-----------------------------------------------------------------------------
(* Theorems. *)

\* The inductive invariant: the state of the processor tells what has been
\* written, what is held back and what may be missing.
THEOREM Invariance == Spec => []IInv
<1>1. IInv /\ [Next]_vars => IInv'
  <2> SUFFICES ASSUME IInv, [Next]_vars PROVE IInv'
    OBVIOUS
  <2>1. CASE Upstream
    BY <2>1, ReadLineStep, ReadEOFStep, ReadFailsStep DEF Upstream
  <2>2. CASE Code
    <3>1. CASE ProcessLine
      BY <3>1, ProcessRelay, ProcessPlain DEF IInv, Plain
    <3> QED
      BY <2>2, <3>1, CheckContextStep, ProcessCancelledStep DEF Code
  <2>3. CASE Disconnect
    BY <2>3, DisconnectStep
  <2>4. CASE UNCHANGED vars
    <3>1. Plain'
      BY <2>4 DEF vars, IInv, Plain, TypeOK, BoundInv, DeliveryInv, Processed, Received
    <3>2. RelayInv'
      BY <2>4, <3>1, QuietStep DEF vars, Cancelled, Processed, Received, Plain
    <3> QED
      BY <3>1, <3>2 DEF IInv, Plain
  <2> QED
    BY <2>1, <2>2, <2>3, <2>4 DEF Next, Returned
<1> QED
  BY InitIInv, <1>1, PTL DEF Spec

\* The state of the relay has its types: what is held back and what has been
\* written are lines received.
THEOREM TypeCorrect == Spec => []TypeOK
<1>1. IInv => TypeOK
  BY DEF IInv
<1> QED
  BY <1>1, Invariance, PTL

\* No content chunk is written twice or out of order (processor.go:643-650).
THEOREM ContentOrdered == Spec => []ContentInOrder
<1>1. IInv => ContentInOrder
  BY DEF IInv, RelayInv
<1> QED
  BY <1>1, Invariance, PTL

\* Content the client does not receive was repeated, in a longer or a shorter
\* form, by the content chunk after it, or is the one chunk still held back, or
\* the last line, not looked at (processor.go:519-524, streaming.go:61-68).
THEOREM ContentAccounted == Spec => []ContentAccountedFor
<1>1. IInv => ContentAccountedFor
  BY DEF IInv, RelayInv
<1> QED
  BY <1>1, Invariance, PTL

\* Once a content chunk has been written, every later one is
\* (processor.go:545-560).
THEOREM NothingDropped == Spec => []NothingDroppedOnceResolved
<1>1. IInv => NothingDroppedOnceResolved
  BY DEF IInv, RelayInv
<1> QED
  BY <1>1, Invariance, PTL

\* [DONE] is written at most once, last, and with nothing left behind
\* (processor.go:531-535).
THEOREM DoneLast == Spec => []DoneComesLast
<1>1. IInv => DoneComesLast
  BY DEF IInv, RelayInv
<1> QED
  BY <1>1, Invariance, PTL

\* Neither malformed nor unknown lines end the stream, in whatever number
\* (processor.go:383-408, 592-605).
THEOREM Terminates == Spec => []TerminatesForCause
<1>1. IInv => TerminatesForCause
  BY DEF IInv, RelayInv
<1> QED
  BY <1>1, Invariance, PTL

\* When the processor has seen [DONE] the function has returned, [DONE] is the
\* last thing written and the client has everything (streaming.go:79-81).
THEOREM DoneEnds == Spec => []DoneEndsRelay
<1>1. IInv => DoneEndsRelay
  BY DEF IInv, RelayInv
<1> QED
  BY <1>1, Invariance, PTL

\* Outside debug mode, what has been written has been handed to the
\* connection whenever the code waits for the upstream (processor.go:646, 665).
THEOREM Delivers == ~DebugMode => (Spec => []DeliveredWhileWaiting)
<1> SUFFICES ASSUME ~DebugMode PROVE Spec => []DeliveredWhileWaiting
  OBVIOUS
<1>1. IInv => DeliveredWhileWaiting
  BY DEF IInv, DeliveryInv, DeliveredWhileWaiting
<1> QED
  BY <1>1, Invariance, PTL
=============================================================================
