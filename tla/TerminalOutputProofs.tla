------------------------ MODULE TerminalOutputProofs ------------------------
(***************************************************************************)
(* Safety of TerminalOutput for every size of batches, chunks, window and  *)
(* command queue, and any amount of output.  Only WindowIsBounded is       *)
(* inductive beside the types.  That an acknowledgement never runs ahead   *)
(* of the window, and that a full window opens again, both need to know    *)
(* what is on its way: no acknowledgement under way exceeds the last one   *)
(* queued (AcksAreKnown), and the last one has arrived or is still under   *)
(* way (LastIsUnderWay).  That the output stays in order follows from the  *)
(* types: see the last part.                                               *)
(***************************************************************************)
EXTENDS TerminalOutput, SequenceLemmas, TLAPS

USE OutputAssumption

\* Nothing acknowledges what has not been queued for it, and nothing is parsed
\* that has not been received.
AcksAreKnown ==
  /\ \A i \in DOMAIN inbox :
       inbox[i].type = "AcknowledgeOutput" => inbox[i].sequence <= queued
  /\ \A i \in DOMAIN ackCalls : ackCalls[i] <= queued
  /\ \A i \in DOMAIN writing : writing[i].sequence <= received

\* The last batch received is processed or with xterm.js; once the window has the
\* session's id, what is processed is queued; and what is queued last has been
\* acknowledged or is on its way.
LastIsUnderWay ==
  /\ processed = received \/ \E i \in DOMAIN writing : writing[i].sequence = received
  /\ responded => queued = processed
  /\ loop = "running" =>
       \/ \A i \in DOMAIN inFlight : inFlight[i] > queued
       \/ \E i \in DOMAIN ackCalls : ackCalls[i] = queued
       \/ \E i \in DOMAIN inbox :
            inbox[i].type = "AcknowledgeOutput" /\ inbox[i].sequence = queued

OutputInv ==
  OutputTypeOK /\ SequencesAgree /\ WindowIsBounded /\ AcksAreKnown /\ LastIsUnderWay

-----------------------------------------------------------------------------
\* What a sequence is after its head has been taken.
LEMMA TakenFacts ==
  ASSUME NEW S, NEW s \in Seq(S), s # <<>>
  PROVE  /\ Head(s) \in S /\ Head(s) = s[1] /\ Tail(s) \in Seq(S)
         /\ Len(s) \in Nat \ {0} /\ Len(Tail(s)) = Len(s) - 1
         /\ 1 \in DOMAIN s
         /\ \A i \in DOMAIN Tail(s) : i + 1 \in DOMAIN s /\ Tail(s)[i] = s[i + 1]
         /\ \A i \in DOMAIN s : i # 1 => i - 1 \in DOMAIN Tail(s) /\ Tail(s)[i - 1] = s[i]
  OBVIOUS

\* What a sequence is after an element has been added.
LEMMA AddedFacts ==
  ASSUME NEW S, NEW s \in Seq(S), NEW e \in S
  PROVE  /\ Append(s, e) \in Seq(S) /\ Len(Append(s, e)) = Len(s) + 1 /\ Len(s) \in Nat
         /\ Len(s) + 1 \in DOMAIN Append(s, e) /\ Append(s, e)[Len(s) + 1] = e
         /\ \A i \in DOMAIN s : i \in DOMAIN Append(s, e) /\ Append(s, e)[i] = s[i]
         /\ \A i \in DOMAIN Append(s, e) : i \in DOMAIN s \/ i = Len(s) + 1
  OBVIOUS

\* What is left of a sequence after its first n elements.
LEMMA PoppedFacts ==
  ASSUME NEW S, NEW s \in Seq(S), NEW n \in 0..Len(s)
  PROVE  /\ SubSeq(s, n + 1, Len(s)) \in Seq(S)
         /\ Len(SubSeq(s, n + 1, Len(s))) = Len(s) - n
         /\ \A i \in DOMAIN SubSeq(s, n + 1, Len(s)) :
              n + i \in DOMAIN s /\ SubSeq(s, n + 1, Len(s))[i] = s[n + i]
  OBVIOUS

-----------------------------------------------------------------------------
(***************************************************************************)
(* The loop.                                                               *)
(***************************************************************************)
\* A batch is sent, or the channel is gone: the sequences still agree, and there was
\* room for a batch if there is one.
LEMMA FlushKeeps ==
  ASSUME OutputInv, NEW data \in Seq(Unit), Flush(data) \/ FlushFails,
         data # <<>> => CanRead, UNCHANGED windowVars
  PROVE  /\ pending' = <<>> /\ inFlight' \in Seq(Nat) /\ nextSequence' \in Nat \ {0}
         /\ channel' \in Seq(Seq(Unit))
         /\ SequencesAgree' /\ WindowIsBounded'
         /\ (\A i \in DOMAIN inFlight : inFlight[i] > queued) =>
              \A i \in DOMAIN inFlight' : inFlight'[i] > queued'
<1> USE DEF OutputInv
<1>1. /\ UNCHANGED <<received, processed, queued>> /\ pending' = <<>>
      /\ inFlight \in Seq(Nat) /\ nextSequence \in Nat \ {0} /\ channel \in Seq(Seq(Unit))
      /\ received \in Nat /\ processed \in Nat /\ queued \in Nat
  BY DEF windowVars, ackVars, Flush, FlushFails, OutputTypeOK
<1>2. CASE UNCHANGED <<channel, inFlight, nextSequence>>
  BY <1>1, <1>2 DEF SequencesAgree, WindowIsBounded
<1>3. CASE /\ data # <<>>
           /\ channel' = Append(channel, data)
           /\ inFlight' = Append(inFlight, nextSequence)
           /\ nextSequence' = nextSequence + 1
  <2>1. /\ inFlight' \in Seq(Nat) /\ Len(inFlight') = Len(inFlight) + 1 /\ Len(inFlight) \in Nat
        /\ \A i \in DOMAIN inFlight' :
              \/ i \in DOMAIN inFlight /\ inFlight'[i] = inFlight[i]
              \/ i = Len(inFlight) + 1 /\ inFlight'[i] = nextSequence
    BY <1>1, <1>3, AddedFacts
  <2>2. channel' \in Seq(Seq(Unit)) /\ Len(channel') = Len(channel) + 1 /\ Len(channel) \in Nat
    BY <1>1, <1>3
  <2>3. SequencesAgree'
    <3>1. ASSUME NEW i \in DOMAIN inFlight'
          PROVE  inFlight'[i] = nextSequence' - Len(inFlight') + i - 1
      <4>1. CASE i \in DOMAIN inFlight /\ inFlight'[i] = inFlight[i]
        <5>1. inFlight[i] = nextSequence - Len(inFlight) + i - 1
          BY <4>1 DEF SequencesAgree
        <5>2. i \in Nat
          BY <1>1, <4>1
        <5> QED
          BY <1>1, <1>3, <2>1, <4>1, <5>1, <5>2
      <4>2. CASE i = Len(inFlight) + 1 /\ inFlight'[i] = nextSequence
        BY <1>1, <1>3, <2>1, <4>2
      <4> QED
        BY <2>1, <4>1, <4>2
    <3>2. nextSequence' - 1 = received' + Len(channel')
      BY <1>1, <1>3, <2>2 DEF SequencesAgree
    <3>3. nextSequence' - 1 - Len(inFlight') <= processed'
      BY <1>1, <1>3, <2>1 DEF SequencesAgree
    <3> QED
      BY <1>1, <3>1, <3>2, <3>3 DEF SequencesAgree
  <2>4. WindowIsBounded'
    BY <1>1, <1>3, <2>1 DEF WindowIsBounded, CanRead
  <2>5. nextSequence > queued
    BY <1>1, <2>2 DEF SequencesAgree
  <2> QED
    BY <1>1, <1>3, <2>1, <2>2, <2>3, <2>4, <2>5
<1> QED
  BY <1>2, <1>3 DEF Flush, FlushFails

\* A step of the loop that leaves the window and the queue alone.
LEMMA LoopKeeps ==
  ASSUME OutputInv, UNCHANGED windowVars, inbox' = inbox \/ (inbox' = <<>> /\ loop' # "running"),
         loop' \in {"running", "ended", "failed"}, loop' = "running" => loop = "running",
         produced' \in 0..MaxOutput, pending' \in Seq(Unit), inFlight' \in Seq(Nat),
         nextSequence' \in Nat \ {0}, channel' \in Seq(Seq(Unit)),
         SequencesAgree', WindowIsBounded',
         (\A i \in DOMAIN inFlight : inFlight[i] > queued) =>
            \A i \in DOMAIN inFlight' : inFlight'[i] > queued'
  PROVE  OutputInv'
<1> USE DEF OutputInv
<1>1. UNCHANGED <<received, writing, screen, processed, queued, ackCalls, responded, current>>
  BY DEF windowVars, ackVars
<1>2. inbox' \in Seq(Command) /\ Len(inbox') <= QueueCapacity
  <2>1. <<>> \in Seq(Command) /\ Len(<<>>) = 0
    OBVIOUS
  <2>2. CASE inbox' = inbox
    BY <2>2 DEF OutputTypeOK
  <2>3. CASE inbox' = <<>>
    <3>1. Len(inbox') = 0 /\ inbox' \in Seq(Command)
      BY <2>1, <2>3
    <3> QED
      BY <3>1
  <2> QED
    BY <2>2, <2>3
<1>3. OutputTypeOK'
  BY <1>1, <1>2 DEF OutputTypeOK
<1>4. AcksAreKnown'
  BY <1>1 DEF AcksAreKnown
<1>5. LastIsUnderWay'
  BY <1>1 DEF LastIsUnderWay
<1> QED
  BY <1>3, <1>4, <1>5

\* The loop reads a chunk, and sends the batch when it is full.
LEMMA ReadOutputKeeps ==
  ASSUME OutputInv, NEW n \in 1..ChunkMax, ReadOutput(n)
  PROVE  OutputInv'
<1> USE DEF OutputInv
<1> DEFINE data == pending \o [i \in 1..n |-> produced + i]
<1>1. /\ loop = "running" /\ CanRead /\ produced' = produced + n /\ produced' \in 0..MaxOutput
      /\ UNCHANGED <<inbox, windowVars>>
  BY DEF ReadOutput, OutputTypeOK
<1>2. data \in Seq(Unit)
  <2>1. [i \in 1..n |-> produced + i] \in Seq(Unit)
    BY <1>1 DEF OutputTypeOK, Unit
  <2> QED
    BY <2>1 DEF OutputTypeOK
<1>3. \/ (Flush(data) \/ FlushFails) /\ loop' \in {"running", "failed"}
      \/ pending' = data /\ UNCHANGED <<loop, channel, inFlight, nextSequence>>
  BY <1>1 DEF ReadOutput
<1> HIDE DEF data
<1>4. CASE (Flush(data) \/ FlushFails) /\ loop' \in {"running", "failed"}
  <2>1. /\ pending' = <<>> /\ inFlight' \in Seq(Nat) /\ nextSequence' \in Nat \ {0}
        /\ channel' \in Seq(Seq(Unit))
        /\ SequencesAgree' /\ WindowIsBounded'
        /\ (\A i \in DOMAIN inFlight : inFlight[i] > queued) =>
             \A i \in DOMAIN inFlight' : inFlight'[i] > queued'
    BY <1>1, <1>2, <1>4, FlushKeeps
  <2> QED
    BY <1>1, <1>4, <2>1, LoopKeeps
<1>5. CASE pending' = data /\ UNCHANGED <<loop, channel, inFlight, nextSequence>>
  <2>1. UNCHANGED <<received, processed, queued>>
    BY <1>1 DEF windowVars, ackVars
  <2>2. SequencesAgree' /\ WindowIsBounded'
    BY <1>1, <1>5, <2>1 DEF SequencesAgree, WindowIsBounded, CanRead, OutputTypeOK
  <2> QED
    BY <1>1, <1>2, <1>5, <2>1, <2>2, LoopKeeps DEF OutputTypeOK
<1> QED
  BY <1>3, <1>4, <1>5

\* What is pending is sent, because its deadline has passed or the loop ends; there is
\* always room for it.
LEMMA SendPendingKeeps ==
  ASSUME OutputInv, FlushDeadline \/ LoopEnds
  PROVE  OutputInv'
<1> USE DEF OutputInv
<1>1. /\ loop = "running" /\ loop' \in {"running", "ended", "failed"}
      /\ inbox' = inbox \/ (inbox' = <<>> /\ loop' # "running")
      /\ UNCHANGED <<produced, windowVars>> /\ (Flush(pending) \/ FlushFails)
  BY DEF FlushDeadline, LoopEnds
<1>2. pending # <<>> => CanRead
  BY DEF WindowIsBounded, CanRead, OutputTypeOK
<1>3. /\ pending' = <<>> /\ inFlight' \in Seq(Nat) /\ nextSequence' \in Nat \ {0}
      /\ channel' \in Seq(Seq(Unit))
      /\ SequencesAgree' /\ WindowIsBounded'
      /\ (\A i \in DOMAIN inFlight : inFlight[i] > queued) =>
           \A i \in DOMAIN inFlight' : inFlight'[i] > queued'
  <2>1. pending \in Seq(Unit)
    BY DEF OutputTypeOK
  <2> QED
    BY <1>1, <1>2, <2>1, FlushKeeps
<1>4. produced' \in 0..MaxOutput
  BY <1>1 DEF OutputTypeOK
<1> QED
  BY <1>1, <1>3, <1>4, LoopKeeps

\* The loop takes a command; an acknowledgement takes the batches up to its sequence
\* out of flight.
LEMMA TakeCommandKeeps ==
  ASSUME OutputInv, TakeCommand
  PROVE  OutputInv'
<1> USE DEF OutputInv
<1>1. /\ loop = "running" /\ inbox # <<>> /\ inbox' = Tail(inbox)
      /\ UNCHANGED <<loop, produced, pending, nextSequence, channel, windowVars>>
      /\ UNCHANGED <<received, writing, screen, processed, queued, ackCalls, responded, current>>
  BY DEF TakeCommand, windowVars, ackVars
<1>2. /\ inbox \in Seq(Command) /\ inFlight \in Seq(Nat) /\ nextSequence \in Nat \ {0}
      /\ received \in Nat /\ processed \in Nat /\ queued \in Nat /\ Len(channel) \in Nat
  BY DEF OutputTypeOK
<1>3. /\ inbox' \in Seq(Command) /\ Len(inbox') = Len(inbox) - 1 /\ Len(inbox) \in Nat \ {0}
      /\ Head(inbox) = inbox[1] /\ 1 \in DOMAIN inbox /\ inbox[1] \in Command
      /\ \A i \in DOMAIN inbox' : i + 1 \in DOMAIN inbox /\ inbox'[i] = inbox[i + 1]
      /\ \A i \in DOMAIN inbox : i # 1 => i - 1 \in DOMAIN inbox' /\ inbox'[i - 1] = inbox[i]
  BY <1>1, <1>2, TakenFacts
<1> DEFINE ack == inbox[1].type = "AcknowledgeOutput"
           sequence == inbox[1].sequence
<1>4. ack => sequence \in Nat /\ sequence <= queued /\ sequence < nextSequence
  <2>1. ack => sequence \in Nat
    BY <1>3 DEF Command
  <2>2. ack => sequence <= queued
    BY <1>3 DEF AcksAreKnown
  <2>3. queued < nextSequence
    BY <1>2 DEF SequencesAgree
  <2> QED
    BY <1>2, <2>1, <2>2, <2>3
<1>5. PICK n \in 0..Len(inFlight) :
        /\ inFlight' = SubSeq(inFlight, n + 1, Len(inFlight))
        /\ ~ack => n = 0
        /\ ack => /\ \A i \in 1..n : inFlight[i] <= sequence
                  /\ n < Len(inFlight) => inFlight[n + 1] > sequence
  <2>1. CASE ack
    <3>1. Acknowledge(sequence)
      BY <1>3, <2>1 DEF TakeCommand
    <3>2. sequence < nextSequence /\ ~(sequence >= nextSequence)
      BY <1>2, <1>4, <2>1
    <3>3. PICK n \in 0..Len(inFlight) :
            /\ \A i \in 1..n : inFlight[i] <= sequence
            /\ n < Len(inFlight) => inFlight[n + 1] > sequence
            /\ inFlight' = SubSeq(inFlight, n + 1, Len(inFlight))
      BY <3>1, <3>2 DEF Acknowledge
    <3> QED
      BY <2>1, <3>3
  <2>2. CASE ~ack
    <3>1. inFlight' = inFlight
      BY <1>3, <2>2 DEF TakeCommand
    <3>2. inFlight = SubSeq(inFlight, 0 + 1, Len(inFlight)) /\ Len(inFlight) \in Nat
      BY <1>2
    <3> QED
      BY <2>2, <3>1, <3>2
  <2> QED
    BY <2>1, <2>2
<1>6. /\ inFlight' \in Seq(Nat) /\ Len(inFlight') = Len(inFlight) - n /\ Len(inFlight) \in Nat
      /\ \A i \in DOMAIN inFlight' : n + i \in DOMAIN inFlight /\ inFlight'[i] = inFlight[n + i]
      /\ DOMAIN inFlight' = 1..Len(inFlight') /\ DOMAIN inFlight = 1..Len(inFlight)
  <2>1. inFlight' = SubSeq(inFlight, n + 1, Len(inFlight)) /\ inFlight \in Seq(Nat)
    BY <1>2, <1>5
  <2>2. /\ inFlight' \in Seq(Nat) /\ Len(inFlight') = Len(inFlight) - n
        /\ \A i \in DOMAIN inFlight' : n + i \in DOMAIN inFlight /\ inFlight'[i] = inFlight[n + i]
    BY <2>1, PoppedFacts
  <2> QED
    BY <2>1, <2>2
<1> HIDE DEF ack, sequence
<1>7. OutputTypeOK'
  BY <1>1, <1>3, <1>6 DEF OutputTypeOK
<1>8. SequencesAgree'
  <2>1. ASSUME NEW i \in DOMAIN inFlight'
        PROVE  inFlight'[i] = nextSequence - Len(inFlight') + i - 1
    <3>1. i \in Int /\ n \in Int /\ n + i \in DOMAIN inFlight /\ inFlight'[i] = inFlight[n + i]
      BY <1>6, <2>1
    <3>2. inFlight[n + i] = nextSequence - Len(inFlight) + (n + i) - 1
      BY <3>1 DEF SequencesAgree
    <3> QED
      BY <1>2, <1>6, <3>1, <3>2
  <2>2. nextSequence - 1 - Len(inFlight') <= processed
    <3>1. CASE n = 0
      BY <1>2, <1>6, <3>1 DEF SequencesAgree
    <3>2. CASE n # 0
      <4>1. n \in DOMAIN inFlight /\ n \in 1..n
        BY <1>6, <3>2
      <4>2. ack
        BY <1>5, <3>2
      <4>3. inFlight[n] <= sequence
        BY <1>5, <4>1, <4>2
      <4>4. inFlight[n] = nextSequence - Len(inFlight) + n - 1
        BY <4>1 DEF SequencesAgree
      <4> QED
        BY <1>2, <1>4, <1>6, <4>2, <4>3, <4>4 DEF SequencesAgree
    <3> QED
      BY <3>1, <3>2
  <2> QED
    BY <1>1, <2>1, <2>2 DEF SequencesAgree
<1>9. WindowIsBounded'
  <2>1. Len(inFlight') <= Len(inFlight) /\ Len(inFlight') \in Nat /\ Len(inFlight) \in Nat
    BY <1>6
  <2>2. Len(inFlight) <= MaxInFlight /\ MaxInFlight \in Nat
    BY DEF WindowIsBounded
  <2>3. Len(inFlight') = MaxInFlight => Len(inFlight) = MaxInFlight
    BY <2>1, <2>2
  <2>4. Len(inFlight') <= MaxInFlight
    BY <2>1, <2>2
  <2> QED
    BY <1>1, <2>3, <2>4 DEF WindowIsBounded
<1>10. AcksAreKnown'
  BY <1>1, <1>3 DEF AcksAreKnown
<1>11. LastIsUnderWay'
  <2>1. CASE ack /\ sequence = queued
    <3>1. ASSUME NEW i \in DOMAIN inFlight'
          PROVE  inFlight'[i] > queued
      <4>1. /\ n + 1 \in DOMAIN inFlight /\ n < Len(inFlight) /\ i \in Nat /\ i >= 1
            /\ n + i \in DOMAIN inFlight /\ inFlight'[i] = inFlight[n + i]
        BY <1>6, <3>1
      <4>2. inFlight[n + 1] > queued
        BY <1>5, <2>1, <4>1
      <4>3. /\ inFlight[n + 1] = nextSequence - Len(inFlight) + (n + 1) - 1
            /\ inFlight[n + i] = nextSequence - Len(inFlight) + (n + i) - 1
        BY <4>1 DEF SequencesAgree
      <4>4. n \in Nat /\ Len(inFlight) \in Nat /\ nextSequence \in Nat /\ queued \in Nat /\ i \in Nat
        BY <1>2, <1>6, <4>1
      <4>5. nextSequence - Len(inFlight) + (n + i) - 1 > queued
        <5>1. nextSequence - Len(inFlight) + (n + 1) - 1 > queued /\ i >= 1
          BY <4>1, <4>2, <4>3
        <5> QED
          BY <4>4, <5>1
      <4> QED
        BY <4>1, <4>3, <4>5
    <3> QED
      BY <1>1, <3>1 DEF LastIsUnderWay
  <2>2. CASE ~(ack /\ sequence = queued)
    <3>1. (\A i \in DOMAIN inFlight : inFlight[i] > queued) =>
             \A i \in DOMAIN inFlight' : inFlight'[i] > queued
      BY <1>6
    <3>2. (\E i \in DOMAIN inbox : inbox[i].type = "AcknowledgeOutput" /\ inbox[i].sequence = queued)
          => \E i \in DOMAIN inbox' : inbox'[i].type = "AcknowledgeOutput" /\ inbox'[i].sequence = queued
      BY <1>3, <2>2 DEF ack, sequence
    <3> QED
      BY <1>1, <3>1, <3>2 DEF LastIsUnderWay
  <2> QED
    BY <2>1, <2>2
<1> QED
  BY <1>7, <1>8, <1>9, <1>10, <1>11

-----------------------------------------------------------------------------
(***************************************************************************)
(* The window.                                                             *)
(***************************************************************************)
\* queueAcknowledgement: what is processed only grows, and once the session's id is
\* known, all of it is queued, with a call still to make if it was not before.
LEMMA QueueAcknowledgementKeeps ==
  ASSUME OutputInv, NEW sequence \in Nat, NEW known \in BOOLEAN,
         QueueAcknowledgement(sequence, known), responded => known
  PROVE  /\ processed' \in Nat /\ queued' \in Nat /\ ackCalls' \in Seq(Nat)
         /\ processed' >= processed /\ processed' >= sequence
         /\ processed' = processed \/ processed' = sequence
         /\ queued' >= queued /\ queued' <= processed'
         /\ known => queued' = processed'
         /\ \A i \in DOMAIN ackCalls' : ackCalls'[i] <= queued'
         /\ \/ queued' = queued /\ ackCalls' = ackCalls
            \/ \E i \in DOMAIN ackCalls' : ackCalls'[i] = queued'
<1> USE DEF OutputInv
<1>1. /\ processed \in Nat /\ queued \in Nat /\ ackCalls \in Seq(Nat) /\ queued <= processed
      /\ \A i \in DOMAIN ackCalls : ackCalls[i] <= queued
      /\ responded => queued = processed
  BY DEF OutputTypeOK, SequencesAgree, AcksAreKnown, LastIsUnderWay
<1>2. /\ processed' \in Nat /\ processed' >= processed /\ processed' >= sequence
      /\ processed' = processed \/ processed' = sequence
  BY <1>1 DEF QueueAcknowledgement
<1>3. CASE ~known \/ processed' <= queued
  <2>1. queued' = queued /\ ackCalls' = ackCalls
    BY <1>3 DEF QueueAcknowledgement
  <2> QED
    BY <1>1, <1>2, <1>3, <2>1
<1>4. CASE known /\ processed' > queued
  <2>1. queued' = processed' /\ ackCalls' = Append(ackCalls, processed')
    BY <1>1, <1>2, <1>4 DEF QueueAcknowledgement
  <2>2. /\ ackCalls' \in Seq(Nat)
        /\ \A i \in DOMAIN ackCalls' :
             \/ i \in DOMAIN ackCalls /\ ackCalls'[i] = ackCalls[i]
             \/ ackCalls'[i] = processed'
        /\ \E i \in DOMAIN ackCalls' : ackCalls'[i] = processed'
    BY <1>1, <1>2, <2>1, AddedFacts
  <2> QED
    BY <1>1, <1>2, <1>4, <2>1, <2>2
<1> QED
  BY <1>1, <1>2, <1>3, <1>4

\* A step of the window that queues an acknowledgement, or nothing.
LEMMA WindowKeeps ==
  ASSUME OutputInv, UNCHANGED loopVars, channel' \in Seq(Seq(Unit)), received' \in Nat,
         received' + Len(channel') = received + Len(channel), received' >= received,
         writing' \in Seq([sequence : Nat, data : Seq(Unit)]), screen' \in Seq(Unit),
         responded' \in BOOLEAN, current' \in BOOLEAN,
         /\ processed' \in Nat /\ queued' \in Nat /\ ackCalls' \in Seq(Nat)
         /\ processed' >= processed /\ processed' <= received'
         /\ queued' >= queued /\ queued' <= processed'
         /\ responded' => queued' = processed'
         /\ \A i \in DOMAIN ackCalls' : ackCalls'[i] <= queued'
         /\ \/ queued' = queued /\ ackCalls' = ackCalls
            \/ \E i \in DOMAIN ackCalls' : ackCalls'[i] = queued',
         \A i \in DOMAIN writing' : writing'[i].sequence <= received',
         processed' = received' \/ \E i \in DOMAIN writing' : writing'[i].sequence = received'
  PROVE  OutputInv'
<1> USE DEF OutputInv
<1>1. UNCHANGED <<loop, produced, pending, inFlight, nextSequence, inbox>>
  BY DEF loopVars, flowVars
<1>2. OutputTypeOK'
  BY <1>1 DEF OutputTypeOK
<1>3. SequencesAgree'
  <2>1. /\ nextSequence \in Nat /\ Len(inFlight) \in Nat /\ Len(channel) \in Nat
        /\ Len(channel') \in Nat /\ processed \in Nat /\ received \in Nat
    <3>1. /\ nextSequence \in Nat /\ processed \in Nat /\ received \in Nat
          /\ inFlight \in Seq(Nat) /\ channel \in Seq(Seq(Unit))
      BY DEF OutputTypeOK
    <3> QED
      BY <3>1
  <2>2. nextSequence - 1 = received' + Len(channel')
    BY <2>1 DEF SequencesAgree
  <2>3. nextSequence - 1 - Len(inFlight) <= processed'
    BY <2>1 DEF SequencesAgree
  <2> QED
    BY <1>1, <2>2, <2>3 DEF SequencesAgree
<1>4. WindowIsBounded'
  BY <1>1 DEF WindowIsBounded
<1>5. AcksAreKnown'
  <2>1. ASSUME NEW i \in DOMAIN inbox, inbox[i].type = "AcknowledgeOutput"
        PROVE  inbox[i].sequence <= queued'
    <3>1. inbox \in Seq(Command) /\ queued \in Nat
      BY DEF OutputTypeOK
    <3>2. inbox[i] \in Command
      BY <3>1
    <3>3. inbox[i].sequence \in Nat
      BY <2>1, <3>2 DEF Command
    <3>4. inbox[i].sequence <= queued
      BY <2>1 DEF AcksAreKnown
    <3> QED
      BY <3>1, <3>3, <3>4
  <2> QED
    BY <1>1, <2>1 DEF AcksAreKnown
<1>6. LastIsUnderWay'
  BY <1>1 DEF LastIsUnderWay
<1> QED
  BY <1>2, <1>3, <1>4, <1>5, <1>6

Batch == [sequence : Nat, data : Seq(Unit)]

\* The number of a batch that xterm.js has been given.
LEMMA WritingIsCounted ==
  ASSUME OutputInv, NEW i \in DOMAIN writing
  PROVE  writing[i] \in Batch /\ writing[i].sequence \in Nat /\ writing[i].sequence <= received
<1>1. writing[i] \in Batch
  <2>1. writing \in Seq(Batch)
    BY DEF OutputInv, OutputTypeOK, Batch
  <2> QED
    BY <2>1
<1>2. writing[i].sequence \in Nat
  BY <1>1 DEF Batch
<1> QED
  BY <1>1, <1>2 DEF OutputInv, AcksAreKnown

\* A batch is received: given to xterm.js, or acknowledged and thrown away.
LEMMA ReceiveOutputKeeps ==
  ASSUME OutputInv, ReceiveOutput
  PROVE  OutputInv'
<1> USE DEF OutputInv
<1>1. /\ channel # <<>> /\ channel' = Tail(channel) /\ received' = received + 1
      /\ UNCHANGED <<loopVars, screen, responded, current>>
  BY DEF ReceiveOutput
<1>2. /\ channel \in Seq(Seq(Unit)) /\ received \in Nat /\ processed \in Nat /\ queued \in Nat
      /\ ackCalls \in Seq(Nat) /\ writing \in Seq(Batch)
      /\ screen \in Seq(Unit) /\ responded \in BOOLEAN /\ current \in BOOLEAN
      /\ queued <= processed /\ processed <= received /\ (responded => queued = processed)
  BY DEF OutputTypeOK, SequencesAgree, LastIsUnderWay, Batch
<1>3. /\ channel' \in Seq(Seq(Unit)) /\ Len(channel') = Len(channel) - 1 /\ Len(channel) \in Nat
      /\ Head(channel) \in Seq(Unit)
  BY <1>1, <1>2, TakenFacts
<1>4. received' \in Nat /\ received' + Len(channel') = received + Len(channel) /\ received' >= received
  BY <1>1, <1>2, <1>3
<1>5. CASE current
  <2> DEFINE batch == [sequence |-> received + 1, data |-> Head(channel)]
  <2>1. batch \in Batch /\ batch.sequence = received'
    BY <1>1, <1>2, <1>3 DEF Batch
  <2>2. writing' = Append(writing, batch) /\ UNCHANGED ackVars
    BY <1>5 DEF ReceiveOutput
  <2> HIDE DEF batch
  <2>3. /\ writing' \in Seq(Batch)
        /\ \A i \in DOMAIN writing' :
             \/ i \in DOMAIN writing /\ writing'[i] = writing[i]
             \/ writing'[i] = batch
        /\ \E i \in DOMAIN writing' : writing'[i] = batch
    <3>1. writing \in Seq(Batch) /\ batch \in Batch /\ writing' = Append(writing, batch)
      BY <1>2, <2>1, <2>2
    <3> QED
      BY <3>1, AddedFacts
  <2>4. \A i \in DOMAIN writing' : writing'[i].sequence <= received'
    <3>1. \A i \in DOMAIN writing : writing[i].sequence \in Nat /\ writing[i].sequence <= received
      BY WritingIsCounted
    <3>2. received' \in Nat /\ received <= received' /\ received \in Nat
      BY <1>1, <1>2
    <3>3. ASSUME NEW i \in DOMAIN writing'
          PROVE  writing'[i].sequence <= received'
      <4>1. CASE i \in DOMAIN writing /\ writing'[i] = writing[i]
        BY <3>1, <3>2, <4>1
      <4>2. CASE writing'[i] = batch
        BY <2>1, <3>2, <4>2
      <4> QED
        BY <2>3, <4>1, <4>2
    <3> QED
      BY <3>3
  <2>5. \E i \in DOMAIN writing' : writing'[i].sequence = received'
    BY <2>1, <2>3
  <2>6. UNCHANGED <<processed, queued, ackCalls>> /\ processed' <= received'
    BY <1>1, <1>2, <2>2 DEF ackVars
  <2>7. \A i \in DOMAIN ackCalls' : ackCalls'[i] <= queued'
    BY <2>6 DEF AcksAreKnown
  <2> QED
    BY <1>1, <1>2, <1>3, <1>4, <2>3, <2>4, <2>5, <2>6, <2>7, WindowKeeps DEF Batch
<1>6. CASE ~current
  <2>1. QueueAcknowledgement(received + 1, responded) /\ UNCHANGED writing
    BY <1>6 DEF ReceiveOutput
  <2>2. /\ processed' \in Nat /\ queued' \in Nat /\ ackCalls' \in Seq(Nat)
        /\ processed' >= processed /\ processed' >= received + 1
        /\ processed' = processed \/ processed' = received + 1
        /\ queued' >= queued /\ queued' <= processed'
        /\ responded => queued' = processed'
        /\ \A i \in DOMAIN ackCalls' : ackCalls'[i] <= queued'
        /\ \/ queued' = queued /\ ackCalls' = ackCalls
           \/ \E i \in DOMAIN ackCalls' : ackCalls'[i] = queued'
    <3>1. received + 1 \in Nat
      BY <1>2
    <3> QED
      BY <1>2, <2>1, <3>1, QueueAcknowledgementKeeps
  <2>3. processed' = received' /\ processed' <= received'
    BY <1>1, <1>2, <2>2
  <2>4. \A i \in DOMAIN writing' : writing'[i].sequence <= received'
    <3>1. \A i \in DOMAIN writing : writing[i].sequence \in Nat /\ writing[i].sequence <= received
      BY WritingIsCounted
    <3> QED
      BY <1>1, <1>2, <2>1, <3>1
  <2> QED
    BY <1>1, <1>2, <1>3, <1>4, <2>1, <2>2, <2>3, <2>4, WindowKeeps DEF Batch
<1> QED
  BY <1>2, <1>5, <1>6

\* xterm.js is done with a batch.
LEMMA ParseOutputKeeps ==
  ASSUME OutputInv, ParseOutput
  PROVE  OutputInv'
<1> USE DEF OutputInv
<1>1. /\ writing # <<>> /\ writing' = Tail(writing) /\ screen' = screen \o Head(writing).data
      /\ QueueAcknowledgement(Head(writing).sequence, responded)
      /\ UNCHANGED <<loopVars, channel, received, responded, current>>
  BY DEF ParseOutput
<1>2. /\ channel \in Seq(Seq(Unit)) /\ received \in Nat /\ processed \in Nat /\ queued \in Nat
      /\ writing \in Seq(Batch)
      /\ screen \in Seq(Unit) /\ responded \in BOOLEAN /\ current \in BOOLEAN
      /\ processed <= received /\ Len(channel) \in Nat
      /\ \A i \in DOMAIN writing : writing[i].sequence <= received
  BY DEF OutputTypeOK, SequencesAgree, AcksAreKnown, Batch
<1>3. /\ writing' \in Seq(Batch)
      /\ Head(writing) \in Batch
      /\ Head(writing) = writing[1] /\ 1 \in DOMAIN writing
      /\ \A i \in DOMAIN writing' : i + 1 \in DOMAIN writing /\ writing'[i] = writing[i + 1]
      /\ \A i \in DOMAIN writing : i # 1 => i - 1 \in DOMAIN writing' /\ writing'[i - 1] = writing[i]
  BY <1>1, <1>2, TakenFacts
<1>4. screen' \in Seq(Unit)
  <2>1. Head(writing).data \in Seq(Unit)
    BY <1>3 DEF Batch
  <2> QED
    BY <1>1, <1>2, <2>1
<1>5. Head(writing).sequence \in Nat /\ Head(writing).sequence <= received
  BY <1>3, WritingIsCounted
<1>6. /\ processed' \in Nat /\ queued' \in Nat /\ ackCalls' \in Seq(Nat)
      /\ processed' >= processed /\ processed' >= Head(writing).sequence
      /\ processed' = processed \/ processed' = Head(writing).sequence
      /\ queued' >= queued /\ queued' <= processed'
      /\ responded => queued' = processed'
      /\ \A i \in DOMAIN ackCalls' : ackCalls'[i] <= queued'
      /\ \/ queued' = queued /\ ackCalls' = ackCalls
         \/ \E i \in DOMAIN ackCalls' : ackCalls'[i] = queued'
  BY <1>1, <1>2, <1>5, QueueAcknowledgementKeeps
<1>7. processed' <= received
  BY <1>2, <1>5, <1>6
<1>8. \A i \in DOMAIN writing' : writing'[i].sequence <= received
  BY <1>2, <1>3
<1>9. processed' = received \/ \E i \in DOMAIN writing' : writing'[i].sequence = received
  <2>1. CASE processed = received
    BY <1>2, <1>6, <1>7, <2>1
  <2>2. CASE Head(writing).sequence = received
    BY <1>2, <1>6, <1>7, <2>2
  <2>3. ASSUME NEW i \in DOMAIN writing, i # 1, writing[i].sequence = received
        PROVE  \E j \in DOMAIN writing' : writing'[j].sequence = received
    BY <1>3, <2>3
  <2> QED
    BY <1>3, <2>1, <2>2, <2>3 DEF LastIsUnderWay
<1> QED
  BY <1>1, <1>2, <1>3, <1>4, <1>6, <1>7, <1>8, <1>9, WindowKeeps DEF Batch

\* The session's id arrives, and what has been processed is acknowledged.
LEMMA RespondKeeps ==
  ASSUME OutputInv, Respond
  PROVE  OutputInv'
<1> USE DEF OutputInv
<1>1. /\ responded' = TRUE /\ QueueAcknowledgement(processed, TRUE)
      /\ UNCHANGED <<loopVars, channel, received, writing, screen, current>>
  BY DEF Respond
<1>2. /\ channel \in Seq(Seq(Unit)) /\ received \in Nat /\ processed \in Nat
      /\ writing \in Seq(Batch)
      /\ screen \in Seq(Unit) /\ current \in BOOLEAN
      /\ processed <= received /\ Len(channel) \in Nat
      /\ \A i \in DOMAIN writing : writing[i].sequence <= received
      /\ processed = received \/ \E i \in DOMAIN writing : writing[i].sequence = received
  BY DEF OutputTypeOK, SequencesAgree, AcksAreKnown, LastIsUnderWay, Batch
<1>3. /\ processed' = processed /\ queued' \in Nat /\ ackCalls' \in Seq(Nat)
      /\ queued' >= queued /\ queued' <= processed' /\ queued' = processed'
      /\ \A i \in DOMAIN ackCalls' : ackCalls'[i] <= queued'
      /\ \/ queued' = queued /\ ackCalls' = ackCalls
         \/ \E i \in DOMAIN ackCalls' : ackCalls'[i] = queued'
  BY <1>1, <1>2, QueueAcknowledgementKeeps
<1> QED
  BY <1>1, <1>2, <1>3, WindowKeeps DEF Batch

\* An acknowledgement enters the command queue, or finds the session gone.
LEMMA SendAcknowledgementKeeps ==
  ASSUME OutputInv, SendAcknowledgement
  PROVE  OutputInv'
<1> USE DEF OutputInv
<1> DEFINE command == [type |-> "AcknowledgeOutput", sequence |-> Head(ackCalls)]
<1>1. /\ ackCalls # <<>> /\ ackCalls' = Tail(ackCalls)
      /\ UNCHANGED <<loop, produced, pending, inFlight, nextSequence, channel, received, writing,
                     screen, processed, queued, responded, current>>
      /\ \/ /\ Len(inbox) < QueueCapacity
            /\ inbox' = Append(inbox, command)
         \/ loop # "running" /\ UNCHANGED inbox
  BY DEF SendAcknowledgement, flowVars
<1>2. ackCalls \in Seq(Nat) /\ inbox \in Seq(Command) /\ Len(inbox) <= QueueCapacity
  BY DEF OutputTypeOK
<1>3. /\ ackCalls' \in Seq(Nat) /\ Head(ackCalls) \in Nat /\ Head(ackCalls) = ackCalls[1]
      /\ 1 \in DOMAIN ackCalls
      /\ \A i \in DOMAIN ackCalls' : i + 1 \in DOMAIN ackCalls /\ ackCalls'[i] = ackCalls[i + 1]
      /\ \A i \in DOMAIN ackCalls :
           i # 1 => i - 1 \in DOMAIN ackCalls' /\ ackCalls'[i - 1] = ackCalls[i]
  BY <1>1, <1>2, TakenFacts
<1>4. /\ command \in Command /\ command.type = "AcknowledgeOutput"
      /\ command.sequence = ackCalls[1] /\ ackCalls[1] <= queued
  BY <1>3 DEF Command, AcksAreKnown
<1> HIDE DEF command
<1>5. CASE loop # "running" /\ UNCHANGED inbox
  <2>1. OutputTypeOK'
    BY <1>1, <1>3, <1>5 DEF OutputTypeOK
  <2>2. AcksAreKnown'
    BY <1>1, <1>3, <1>5 DEF AcksAreKnown
  <2>3. LastIsUnderWay'
    BY <1>1, <1>5 DEF LastIsUnderWay
  <2> QED
    BY <1>1, <2>1, <2>2, <2>3 DEF SequencesAgree, WindowIsBounded
<1>6. CASE Len(inbox) < QueueCapacity /\ inbox' = Append(inbox, command)
  <2>1. /\ inbox' \in Seq(Command) /\ Len(inbox') = Len(inbox) + 1 /\ Len(inbox) \in Nat
        /\ \A i \in DOMAIN inbox : i \in DOMAIN inbox' /\ inbox'[i] = inbox[i]
        /\ \A i \in DOMAIN inbox' : \/ i \in DOMAIN inbox /\ inbox'[i] = inbox[i]
                                    \/ inbox'[i] = command
        /\ \E i \in DOMAIN inbox' : inbox'[i] = command
    BY <1>2, <1>4, <1>6, AddedFacts
  <2>2. OutputTypeOK'
    <3>1. Len(inbox') <= QueueCapacity
      BY <1>6, <2>1
    <3> QED
      BY <1>1, <1>3, <2>1, <3>1 DEF OutputTypeOK
  <2>3. AcksAreKnown'
    BY <1>1, <1>3, <1>4, <2>1 DEF AcksAreKnown
  <2>4. LastIsUnderWay'
    <3>1. CASE ackCalls[1] = queued
      BY <1>1, <1>4, <2>1, <3>1 DEF LastIsUnderWay
    <3>2. CASE ackCalls[1] # queued
      <4>1. (\E i \in DOMAIN ackCalls : ackCalls[i] = queued)
              => \E i \in DOMAIN ackCalls' : ackCalls'[i] = queued
        BY <1>3, <3>2
      <4>2. (\E i \in DOMAIN inbox : inbox[i].type = "AcknowledgeOutput" /\ inbox[i].sequence = queued)
              => \E i \in DOMAIN inbox' : inbox'[i].type = "AcknowledgeOutput"
                                          /\ inbox'[i].sequence = queued
        BY <2>1
      <4> QED
        BY <1>1, <4>1, <4>2 DEF LastIsUnderWay
    <3> QED
      BY <3>1, <3>2
  <2> QED
    BY <1>1, <2>2, <2>3, <2>4 DEF SequencesAgree, WindowIsBounded
<1> QED
  BY <1>1, <1>5, <1>6

\* A write enters the command queue.
LEMMA SendWriteKeeps ==
  ASSUME OutputInv, SendWrite
  PROVE  OutputInv'
<1> USE DEF OutputInv
<1> DEFINE command == [type |-> "Write"]
<1>1. /\ UNCHANGED <<loop, produced, pending, inFlight, nextSequence, channel, received, writing,
                     screen, processed, queued, ackCalls, responded, current>>
      /\ Len(inbox) < QueueCapacity /\ inbox' = Append(inbox, command)
  BY DEF SendWrite, flowVars, windowVars, ackVars
<1>2. inbox \in Seq(Command) /\ command \in Command /\ command.type # "AcknowledgeOutput"
  BY DEF OutputTypeOK, Command
<1> HIDE DEF command
<1>3. /\ inbox' \in Seq(Command) /\ Len(inbox') = Len(inbox) + 1 /\ Len(inbox) \in Nat
      /\ \A i \in DOMAIN inbox : i \in DOMAIN inbox' /\ inbox'[i] = inbox[i]
      /\ \A i \in DOMAIN inbox' : \/ i \in DOMAIN inbox /\ inbox'[i] = inbox[i]
                                  \/ inbox'[i] = command
  BY <1>1, <1>2, AddedFacts
<1>4. OutputTypeOK'
  <2>1. Len(inbox') <= QueueCapacity
    BY <1>1, <1>3
  <2> QED
    BY <1>1, <1>3, <2>1 DEF OutputTypeOK
<1>5. AcksAreKnown'
  BY <1>1, <1>2, <1>3 DEF AcksAreKnown
<1>6. LastIsUnderWay'
  BY <1>1, <1>3 DEF LastIsUnderWay
<1> QED
  BY <1>1, <1>4, <1>5, <1>6 DEF SequencesAgree, WindowIsBounded

-----------------------------------------------------------------------------
\* OutputInv is an invariant.
LEMMA OutputInitially == OutputInit => OutputInv
<1>1. /\ <<>> \in Seq(Unit) /\ <<>> \in Seq(Nat) /\ <<>> \in Seq(Command)
      /\ <<>> \in Seq(Seq(Unit)) /\ <<>> \in Seq([sequence : Nat, data : Seq(Unit)])
      /\ Len(<<>>) = 0 /\ DOMAIN <<>> = {}
  OBVIOUS
<1>2. OutputInit => OutputTypeOK
  <2>1. OutputInit => inbox \in Seq(Command) /\ Len(inbox) <= QueueCapacity
    BY <1>1 DEF OutputInit
  <2>2. OutputInit => /\ produced \in 0..MaxOutput /\ nextSequence \in Nat \ {0} /\ received \in Nat
                      /\ processed \in Nat /\ queued \in Nat
    BY DEF OutputInit
  <2> QED
    BY <1>1, <2>1, <2>2 DEF OutputInit, OutputTypeOK
<1>3. OutputInit => SequencesAgree /\ WindowIsBounded
  BY <1>1 DEF OutputInit, SequencesAgree, WindowIsBounded
<1>4. OutputInit => AcksAreKnown /\ LastIsUnderWay
  BY <1>1 DEF OutputInit, AcksAreKnown, LastIsUnderWay
<1> QED
  BY <1>2, <1>3, <1>4 DEF OutputInv

\* The inductive invariant, which the theorems below follow from.
THEOREM OutputInvariant == OutputSpec => []OutputInv
<1>1. OutputInit => OutputInv
  BY OutputInitially
<1>2. OutputInv /\ [OutputNext]_outputVars => OutputInv'
  <2> SUFFICES ASSUME OutputInv, [OutputNext]_outputVars
               PROVE  OutputInv'
    OBVIOUS
  <2>1. CASE Supersede \/ UNCHANGED outputVars
    <3>1. /\ UNCHANGED <<loop, produced, pending, inFlight, nextSequence, inbox, channel, received,
                         writing, screen, processed, queued, ackCalls, responded>>
          /\ current' \in BOOLEAN
      BY <2>1 DEF Supersede, outputVars, loopVars, flowVars, windowVars, ackVars, OutputInv,
         OutputTypeOK
    <3> QED
      BY <3>1 DEF OutputInv, OutputTypeOK, SequencesAgree, WindowIsBounded, AcksAreKnown,
         LastIsUnderWay
  <2> QED
    BY <2>1, ReadOutputKeeps, SendPendingKeeps, TakeCommandKeeps, ReceiveOutputKeeps,
       ParseOutputKeeps, RespondKeeps, SendAcknowledgementKeeps, SendWriteKeeps DEF OutputNext
<1> QED
  BY <1>1, <1>2, PTL DEF OutputSpec

\* Type correctness; the command queue does not outgrow its capacity.
THEOREM OutputTypeCorrect == OutputSpec => []OutputTypeOK
<1>1. OutputInv => OutputTypeOK
  BY DEF OutputInv
<1> QED
  BY <1>1, OutputInvariant, PTL

\* The numbers the loop and the window count independently agree, and no batch is taken
\* for acknowledged before the window has processed it.
THEOREM CountsAgree == OutputSpec => []SequencesAgree
<1>1. OutputInv => SequencesAgree
  BY DEF OutputInv
<1> QED
  BY <1>1, OutputInvariant, PTL

\* No more batches are in flight than the window allows, whatever the flush deadline does.
THEOREM WindowStaysBounded == OutputSpec => []WindowIsBounded
<1>1. OutputInv => WindowIsBounded
  BY DEF OutputInv
<1> QED
  BY <1>1, OutputInvariant, PTL

\* While the window is full, what will open it is on its way: the loop does not wait in vain.
THEOREM FullWindowReopens == OutputSpec => []FullWindowOpens
<1>1. OutputInv => FullWindowOpens
  <2> SUFFICES ASSUME OutputInv, loop = "running", ~CanRead,
                      channel = <<>>, writing = <<>>, responded, ackCalls = <<>>,
                      ~ \E i \in DOMAIN inbox : inbox[i].type = "AcknowledgeOutput"
               PROVE  FALSE
    BY DEF FullWindowOpens
  <2> USE DEF OutputInv
  <2>1. queued = processed /\ processed = received
    BY DEF LastIsUnderWay
  <2>2. \A i \in DOMAIN inFlight : inFlight[i] > queued
    BY DEF LastIsUnderWay
  <2>3. received = nextSequence - 1 /\ nextSequence \in Nat
    BY DEF SequencesAgree, OutputTypeOK
  <2>4. Len(inFlight) \in Nat /\ 1 \in DOMAIN inFlight
    BY DEF CanRead, OutputTypeOK
  <2>5. inFlight[1] = nextSequence - Len(inFlight) + 1 - 1 /\ Len(inFlight) >= 1
    BY <2>4 DEF SequencesAgree, OutputTypeOK
  <2> QED
    BY <2>1, <2>2, <2>3, <2>4, <2>5
<1> QED
  BY <1>1, OutputInvariant, PTL
-----------------------------------------------------------------------------
(***************************************************************************)
(* Order.  A unit that has been read is on the screen, with xterm.js, in   *)
(* the channel or pending; a step takes a batch from one end of one of     *)
(* these and puts it on the other end of the next.                         *)
(***************************************************************************)
Texts(batches) == [i \in DOMAIN batches |-> batches[i].data]

\* All that has been read, from the screen back to the loop.
Under(shown, parsed, sent, kept) == shown \o FlattenSeq(parsed) \o FlattenSeq(sent) \o kept

LEMMA TextsType ==
  ASSUME NEW batches \in Seq(Batch)
  PROVE  Texts(batches) \in Seq(Seq(Unit))
<1>1. \A i \in 1..Len(batches) : batches[i].data \in Seq(Unit)
  <2>1. \A i \in 1..Len(batches) : batches[i] \in Batch
    OBVIOUS
  <2> QED
    BY <2>1 DEF Batch
<1>2. Len(batches) \in Nat /\ DOMAIN batches = 1..Len(batches)
  OBVIOUS
<1>3. Texts(batches) \in [1..Len(batches) -> Seq(Unit)]
  BY <1>1, <1>2 DEF Texts
<1> QED
  BY <1>2, <1>3, SeqDef

LEMMA TextsAdded ==
  ASSUME NEW batches \in Seq(Batch), NEW batch \in Batch
  PROVE  Texts(Append(batches, batch)) = Append(Texts(batches), batch.data)
<1> DEFINE more == Append(batches, batch)
           texts == Append(Texts(batches), batch.data)
<1>1. more \in Seq(Batch) /\ batch.data \in Seq(Unit)
  BY DEF Batch
<1>2. Texts(batches) \in Seq(Seq(Unit)) /\ Texts(more) \in Seq(Seq(Unit))
  BY <1>1, TextsType
<1>3. texts \in Seq(Seq(Unit))
  BY <1>1, <1>2
<1>4. /\ Len(more) = Len(batches) + 1 /\ Len(batches) \in Nat
      /\ DOMAIN batches = 1..Len(batches) /\ DOMAIN more = 1..Len(more)
      /\ \A i \in 1..Len(batches) : more[i] = batches[i]
      /\ more[Len(batches) + 1] = batch
  OBVIOUS
<1>5. Len(Texts(more)) = Len(more) /\ Len(Texts(batches)) = Len(batches)
  BY <1>2, <1>4 DEF Texts
<1>6. ASSUME NEW i \in 1..Len(more)
      PROVE  Texts(more)[i] = texts[i]
  <2>1. Texts(more)[i] = more[i].data
    BY <1>4 DEF Texts
  <2>2. CASE i \in 1..Len(batches)
    <3>1. texts[i] = Texts(batches)[i]
      BY <1>1, <1>2, <1>5, <2>2, AppendProperties
    <3>2. Texts(batches)[i] = batches[i].data
      BY <1>4, <2>2 DEF Texts
    <3> QED
      BY <1>4, <2>1, <2>2, <3>1, <3>2
  <2>3. CASE i = Len(batches) + 1
    <3>1. texts[i] = batch.data
      BY <1>1, <1>2, <1>5, <2>3, AppendProperties
    <3> QED
      BY <1>4, <2>1, <2>3, <3>1
  <2>4. i \in 1..Len(batches) \/ i = Len(batches) + 1
    BY <1>4
  <2> QED
    BY <2>2, <2>3, <2>4
<1>7. Len(texts) = Len(more)
  BY <1>1, <1>2, <1>4, <1>5, AppendProperties
<1> HIDE DEF texts, more
<1> QED
  BY <1>2, <1>3, <1>5, <1>6, <1>7, SeqEqual DEF texts, more

LEMMA TextsTaken ==
  ASSUME NEW batches \in Seq(Batch), batches # <<>>
  PROVE  /\ Texts(batches) # <<>>
         /\ Head(Texts(batches)) = Head(batches).data
         /\ Tail(Texts(batches)) = Texts(Tail(batches))
<1>1. /\ Head(batches) = batches[1] /\ Tail(batches) \in Seq(Batch)
      /\ Len(batches) \in Nat \ {0} /\ Len(Tail(batches)) = Len(batches) - 1
      /\ DOMAIN batches = 1..Len(batches) /\ DOMAIN Tail(batches) = 1..Len(Tail(batches))
      /\ \A i \in 1..Len(Tail(batches)) : Tail(batches)[i] = batches[i + 1]
  OBVIOUS
<1>2. Texts(batches) \in Seq(Seq(Unit)) /\ Texts(Tail(batches)) \in Seq(Seq(Unit))
  BY <1>1, TextsType
<1>3. /\ Len(Texts(batches)) = Len(batches)
      /\ Len(Texts(Tail(batches))) = Len(batches) - 1
  BY <1>1, <1>2 DEF Texts
<1>4. Texts(batches) # <<>>
  BY <1>1, <1>2, <1>3
<1>5. Texts(batches)[1] = batches[1].data
  BY <1>1 DEF Texts
<1>6. ASSUME NEW i \in 1..(Len(batches) - 1)
      PROVE  Texts(Tail(batches))[i] = Texts(batches)[i + 1]
  BY <1>1 DEF Texts
<1> DEFINE texts == Texts(batches)
<1>7. /\ Head(texts) = texts[1] /\ Tail(texts) \in Seq(Seq(Unit))
      /\ Len(Tail(texts)) = Len(texts) - 1
      /\ \A i \in 1..(Len(texts) - 1) : Tail(texts)[i] = texts[i + 1]
  <2> HIDE DEF texts
  <2>1. texts \in Seq(Seq(Unit)) /\ texts # <<>>
    BY <1>2, <1>4 DEF texts
  <2> QED
    BY <2>1
<1>8. Tail(texts) = Texts(Tail(batches))
  <2> DEFINE tail == Tail(texts)
             rest == Texts(Tail(batches))
  <2>1. tail \in Seq(Seq(Unit)) /\ rest \in Seq(Seq(Unit)) /\ Len(tail) = Len(rest)
    BY <1>2, <1>3, <1>7
  <2>2. \A i \in 1..Len(tail) : tail[i] = rest[i]
    BY <1>3, <1>6, <1>7
  <2> HIDE DEF tail, rest
  <2>3. tail = rest
    BY <2>1, <2>2, SeqEqual
  <2> QED
    BY <2>3 DEF tail, rest
<1> QED
  BY <1>1, <1>4, <1>5, <1>7, <1>8

\* A chunk joins what is pending.
LEMMA ChunkIsNext ==
  ASSUME NEW n \in Nat, NEW chunk \in Nat
  PROVE  [i \in 1..n |-> i] \o [i \in 1..chunk |-> n + i] = [i \in 1..(n + chunk) |-> i]
<1> DEFINE a == [i \in 1..n |-> i]
           b == [i \in 1..chunk |-> n + i]
           c == [i \in 1..(n + chunk) |-> i]
<1>1. a \in Seq(Nat) /\ b \in Seq(Nat) /\ c \in Seq(Nat)
  OBVIOUS
<1>2. Len(a) = n /\ Len(b) = chunk /\ Len(c) = n + chunk
  OBVIOUS
<1>3. /\ a \o b \in Seq(Nat) /\ Len(a \o b) = n + chunk
      /\ \A i \in 1..(n + chunk) : (a \o b)[i] = IF i <= n THEN a[i] ELSE b[i - n]
  <2> HIDE DEF a, b
  <2> QED
    BY <1>1, <1>2, ConcatProperties
<1>4. \A i \in 1..(n + chunk) : (a \o b)[i] = c[i]
  <2> TAKE i \in 1..(n + chunk)
  <2>1. CASE i <= n
    BY <1>3, <2>1
  <2>2. CASE i > n
    <3>1. i - n \in 1..chunk /\ n + (i - n) = i
      BY <2>2
    <3> QED
      BY <1>3, <2>2, <3>1
  <2> QED
    BY <2>1, <2>2
<1> HIDE DEF a, b, c
<1>5. a \o b = c
  BY <1>1, <1>2, <1>3, <1>4, SeqEqual
<1> QED
  BY <1>5 DEF a, b, c
\* What is read joins the end.
Grows(shown, parsed, sent, kept, chunk) ==
  Under(shown, parsed, sent, kept \o chunk) = Under(shown, parsed, sent, kept) \o chunk

LEMMA UnderGrows ==
  ASSUME NEW S, NEW shown \in Seq(S), NEW parsed \in Seq(Seq(S)), NEW sent \in Seq(Seq(S)),
         NEW kept \in Seq(S), NEW chunk \in Seq(S)
  PROVE  Grows(shown, parsed, sent, kept, chunk)
<1> DEFINE p == FlattenSeq(parsed)
           s == FlattenSeq(sent)
           sps == shown \o p \o s
<1>1. p \in Seq(S) /\ s \in Seq(S)
  BY FlattenType
<1>2. sps \in Seq(S)
  <2> HIDE DEF p, s
  <2> QED
    BY <1>1, ConcatProperties
<1> HIDE DEF p, s, sps
<1>3. Assoc(sps, kept, chunk)
  BY <1>2, ConcatAssoc
<1> QED
  BY <1>3 DEF Grows, Under, Assoc, sps, p, s

\* A batch that moves on changes nothing.
LEMMA BatchesMove ==
  ASSUME NEW S, NEW shown \in Seq(S), NEW parsed \in Seq(Seq(S)), NEW sent \in Seq(Seq(S)),
         NEW kept \in Seq(S)
  PROVE  /\ Under(shown, parsed, Append(sent, kept), <<>>) = Under(shown, parsed, sent, kept)
         /\ sent # <<>> => Under(shown, Append(parsed, Head(sent)), Tail(sent), kept)
                              = Under(shown, parsed, sent, kept)
         /\ parsed # <<>> => Under(shown \o Head(parsed), Tail(parsed), sent, kept)
                                = Under(shown, parsed, sent, kept)
<1> DEFINE p == FlattenSeq(parsed)
           s == FlattenSeq(sent)
           sp == shown \o p
           sps == shown \o p \o s
<1>1. p \in Seq(S) /\ s \in Seq(S)
  BY FlattenType
<1>2. FlattenSeq(Append(sent, kept)) = s \o kept
  BY FlattenAppend
<1>3. sp \in Seq(S) /\ sps \in Seq(S) /\ sps \o kept \in Seq(S)
  <2> HIDE DEF p, s
  <2>1. sp \in Seq(S)
    BY <1>1, ConcatProperties
  <2> HIDE DEF sp
  <2>2. sp \o s \in Seq(S) /\ sps = sp \o s
    BY <1>1, <2>1, ConcatProperties DEF sp
  <2> HIDE DEF sps
  <2>3. sps \o kept \in Seq(S)
    BY <2>2, ConcatProperties
  <2> QED
    BY <2>1, <2>2, <2>3
<1> HIDE DEF p, s, sp, sps
<1>4. Under(shown, parsed, Append(sent, kept), <<>>) = Under(shown, parsed, sent, kept)
  <2>1. Assoc(sp, s, kept)
    BY <1>1, <1>3, ConcatAssoc
  <2> DEFINE all == sps \o kept
  <2>2. all \in Seq(S)
    BY <1>3
  <2> HIDE DEF all
  <2>3. all \o <<>> = all
    BY <2>2, ConcatEmptySeq
  <2> QED
    BY <1>2, <2>1, <2>3 DEF Under, Assoc, all, sps, sp, p, s
<1>5. ASSUME sent # <<>>
      PROVE  Under(shown, Append(parsed, Head(sent)), Tail(sent), kept)
               = Under(shown, parsed, sent, kept)
  <2> DEFINE h == Head(sent)
             t == FlattenSeq(Tail(sent))
  <2>1. Head(sent) \in Seq(S) /\ Tail(sent) \in Seq(Seq(S))
    BY <1>5, HeadTailProperties
  <2>2. h \in Seq(S) /\ t \in Seq(S)
    BY <2>1, FlattenType
  <2>3. s = h \o t
    BY <1>5, FlattenHeadTail DEF s
  <2>4. FlattenSeq(Append(parsed, Head(sent))) = p \o h
    BY <2>1, FlattenAppend DEF p
  <2> HIDE DEF h, t
  <2>5. Assoc(shown, p, h) /\ Assoc(sp, h, t)
    BY <1>1, <1>3, <2>2, ConcatAssoc
  <2> QED
    BY <2>3, <2>4, <2>5 DEF Under, Assoc, sp, p, s, t
<1>6. ASSUME parsed # <<>>
      PROVE  Under(shown \o Head(parsed), Tail(parsed), sent, kept)
               = Under(shown, parsed, sent, kept)
  <2> DEFINE h == Head(parsed)
             t == FlattenSeq(Tail(parsed))
  <2>1. Head(parsed) \in Seq(S) /\ Tail(parsed) \in Seq(Seq(S))
    BY <1>6, HeadTailProperties
  <2>2. h \in Seq(S) /\ t \in Seq(S)
    BY <2>1, FlattenType
  <2>3. p = h \o t
    BY <1>6, FlattenHeadTail DEF p
  <2> HIDE DEF h, t
  <2>4. Assoc(shown, h, t)
    BY <2>2, ConcatAssoc
  <2> QED
    BY <2>3, <2>4 DEF Under, Assoc, p, s, h, t
<1> QED
  BY <1>4, <1>5, <1>6
\* OutputInOrder, with the parts of the way named.
Numbers(n) == [i \in 1..n |-> i]

InOrder ==
  current /\ loop # "failed" =>
    Under(screen, Texts(writing), channel, pending) = Numbers(produced)

LEMMA InOrderIsIt == OutputInOrder <=> InOrder
  BY DEF OutputInOrder, InOrder, Under, Texts, Numbers

LEMMA InOrderIsItNext == OutputInOrder' <=> InOrder'
  BY DEF OutputInOrder, InOrder, Under, Texts, Numbers

\* What is pending is sent, or the channel is gone.
LEMMA FlushKeepsOrder ==
  ASSUME OutputTypeOK, NEW data \in Seq(Unit), Flush(data)
  PROVE  Under(screen, Texts(writing), channel', pending') = Under(screen, Texts(writing), channel, data)
<1>1. /\ screen \in Seq(Unit) /\ channel \in Seq(Seq(Unit)) /\ Texts(writing) \in Seq(Seq(Unit))
  BY TextsType DEF OutputTypeOK, Batch
<1>2. CASE data = <<>>
  BY <1>2 DEF Flush
<1>3. CASE data # <<>>
  <2>1. channel' = Append(channel, data) /\ pending' = <<>>
    BY <1>3 DEF Flush
  <2> QED
    BY <1>1, <2>1, BatchesMove
<1> QED
  BY <1>2, <1>3

LEMMA ReadKeepsOrder ==
  ASSUME OutputTypeOK, InOrder, NEW n \in 1..ChunkMax, ReadOutput(n)
  PROVE  InOrder'
<1> DEFINE chunk == [i \in 1..n |-> produced + i]
           data == pending \o chunk
<1>1. /\ loop = "running" /\ produced' = produced + n /\ UNCHANGED <<screen, writing, current>>
      /\ produced \in Nat /\ n \in Nat /\ produced + n <= MaxOutput /\ MaxOutput \in Nat
  <2>1. MaxOutput \in Nat /\ ChunkMax \in Nat /\ produced \in 0..MaxOutput
    BY DEF OutputTypeOK
  <2> QED
    BY <2>1 DEF ReadOutput, windowVars
<1>2. /\ pending \in Seq(Unit)
      /\ screen \in Seq(Unit) /\ channel \in Seq(Seq(Unit)) /\ Texts(writing) \in Seq(Seq(Unit))
  BY TextsType DEF OutputTypeOK, Batch
<1>3. chunk \in Seq(Unit)
  BY <1>1 DEF Unit
<1>4. data \in Seq(Unit)
  <2> HIDE DEF chunk
  <2> QED
    BY <1>2, <1>3, ConcatProperties
<1>5. \/ Flush(data) \/ loop' = "failed" \/ (pending' = data /\ channel' = channel)
  BY DEF ReadOutput
<1>6. Numbers(produced) \o chunk = Numbers(produced + n)
  BY <1>1, ChunkIsNext DEF Numbers
<1> HIDE DEF chunk
<1>7. Under(screen, Texts(writing), channel, data)
        = Under(screen, Texts(writing), channel, pending) \o chunk
  <2>1. Grows(screen, Texts(writing), channel, pending, chunk)
    BY <1>2, <1>3, UnderGrows
  <2> QED
    BY <2>1 DEF Grows
<1>8. current => Under(screen, Texts(writing), channel, data) = Numbers(produced')
  BY <1>1, <1>6, <1>7 DEF InOrder
<1> HIDE DEF data
<1>9. CASE Flush(data)
  <2>1. Under(screen, Texts(writing), channel', pending')
          = Under(screen, Texts(writing), channel, data)
    BY <1>4, <1>9, FlushKeepsOrder
  <2> QED
    BY <1>1, <1>8, <2>1 DEF InOrder, Texts
<1>10. CASE loop' = "failed"
  BY <1>10 DEF InOrder
<1>11. CASE pending' = data /\ channel' = channel
  BY <1>1, <1>8, <1>11 DEF InOrder, Texts
<1> QED
  BY <1>5, <1>9, <1>10, <1>11

LEMMA LoopKeepsOrder ==
  ASSUME OutputTypeOK, InOrder, FlushDeadline \/ TakeCommand \/ LoopEnds
  PROVE  InOrder'
<1>1. UNCHANGED <<screen, writing, current, produced>> /\ loop = "running" /\ pending \in Seq(Unit)
  BY DEF FlushDeadline, TakeCommand, LoopEnds, windowVars, OutputTypeOK
<1>2. CASE loop' = "failed"
  BY <1>2 DEF InOrder
<1>3. CASE Flush(pending)
  <2>1. Under(screen, Texts(writing), channel', pending')
          = Under(screen, Texts(writing), channel, pending)
    BY <1>1, <1>3, FlushKeepsOrder
  <2> QED
    BY <1>1, <2>1 DEF InOrder, Texts
<1>4. CASE TakeCommand
  BY <1>1, <1>4 DEF TakeCommand, InOrder, Texts
<1> QED
  BY <1>2, <1>3, <1>4 DEF FlushDeadline, LoopEnds

LEMMA ReceiveKeepsOrder ==
  ASSUME OutputTypeOK, InOrder, ReceiveOutput
  PROVE  InOrder'
<1>1. /\ UNCHANGED <<loop, produced, pending, screen, current>>
      /\ channel # <<>> /\ channel' = Tail(channel)
      /\ current => writing' = Append(writing, [sequence |-> received + 1, data |-> Head(channel)])
  BY DEF ReceiveOutput, loopVars, flowVars
<1>2. /\ received \in Nat /\ writing \in Seq(Batch) /\ pending \in Seq(Unit)
      /\ screen \in Seq(Unit) /\ channel \in Seq(Seq(Unit)) /\ Texts(writing) \in Seq(Seq(Unit))
  BY TextsType DEF OutputTypeOK, Batch
<1>3. SUFFICES ASSUME current, loop # "failed"
               PROVE  Under(screen, Texts(writing'), Tail(channel), pending) = Numbers(produced)
  BY <1>1 DEF InOrder, Texts
<1>4. Head(channel) \in Seq(Unit)
  BY <1>1, <1>2, HeadTailProperties
<1>5. Texts(writing') = Append(Texts(writing), Head(channel))
  <2> DEFINE batch == [sequence |-> received + 1, data |-> Head(channel)]
  <2>1. batch \in Batch /\ batch.data = Head(channel)
    BY <1>2, <1>4 DEF Batch
  <2> HIDE DEF batch
  <2>2. Texts(Append(writing, batch)) = Append(Texts(writing), batch.data)
    BY <1>2, <2>1, TextsAdded
  <2> QED
    BY <1>1, <1>3, <2>1, <2>2 DEF batch
<1>6. Under(screen, Append(Texts(writing), Head(channel)), Tail(channel), pending)
        = Under(screen, Texts(writing), channel, pending)
  BY <1>1, <1>2, BatchesMove
<1> QED
  BY <1>3, <1>5, <1>6 DEF InOrder

LEMMA ParseKeepsOrder ==
  ASSUME OutputTypeOK, InOrder, ParseOutput
  PROVE  InOrder'
<1>1. /\ UNCHANGED <<loop, produced, pending, channel, current>>
      /\ writing # <<>> /\ writing' = Tail(writing) /\ screen' = screen \o Head(writing).data
  BY DEF ParseOutput, loopVars, flowVars
<1>2. /\ writing \in Seq(Batch) /\ pending \in Seq(Unit)
      /\ screen \in Seq(Unit) /\ channel \in Seq(Seq(Unit)) /\ Texts(writing) \in Seq(Seq(Unit))
  BY TextsType DEF OutputTypeOK, Batch
<1>3. /\ Texts(writing) # <<>> /\ Head(Texts(writing)) = Head(writing).data
      /\ Tail(Texts(writing)) = Texts(Tail(writing))
  BY <1>1, <1>2, TextsTaken
<1>4. Under(screen \o Head(Texts(writing)), Tail(Texts(writing)), channel, pending)
        = Under(screen, Texts(writing), channel, pending)
  BY <1>2, <1>3, BatchesMove
<1> QED
  BY <1>1, <1>3, <1>4 DEF InOrder, Texts

\* Everything that is read reaches the screen once and in order, as long as the window shows
\* this session and its channel exists.
THEOREM OutputStaysInOrder == OutputSpec => []OutputInOrder
<1>1. OutputInit => OutputInOrder
  <2> SUFFICES ASSUME OutputInit PROVE InOrder
    BY InOrderIsIt
  <2>1. screen = <<>> /\ writing = <<>> /\ channel = <<>> /\ pending = <<>> /\ produced = 0
    BY DEF OutputInit
  <2>2. Texts(writing) = <<>> /\ Numbers(produced) = <<>>
    BY <2>1 DEF Texts, Numbers
  <2>3. FlattenSeq(<<>>) = <<>>
    BY FlattenEmpty
  <2>4. <<>> \o <<>> = <<>>
    OBVIOUS
  <2> QED
    BY <2>1, <2>2, <2>3, <2>4 DEF InOrder, Under
<1>2. OutputInOrder /\ OutputTypeOK /\ [OutputNext]_outputVars => OutputInOrder'
  <2> SUFFICES ASSUME InOrder, OutputTypeOK, [OutputNext]_outputVars
               PROVE  InOrder'
    BY InOrderIsIt, InOrderIsItNext
  <2>1. CASE Respond \/ SendAcknowledgement \/ SendWrite \/ UNCHANGED outputVars
    <3>1. UNCHANGED <<loop, produced, pending, channel, writing, screen, current>>
      BY <2>1 DEF Respond, SendAcknowledgement, SendWrite, outputVars, loopVars, flowVars,
         windowVars, ackVars
    <3> QED
      BY <3>1 DEF InOrder, Texts
  <2>2. CASE Supersede
    BY <2>2 DEF Supersede, InOrder
  <2> QED
    BY <2>1, <2>2, ReadKeepsOrder, LoopKeepsOrder, ReceiveKeepsOrder, ParseKeepsOrder DEF OutputNext
<1> QED
  BY <1>1, <1>2, OutputTypeCorrect, PTL DEF OutputSpec
=============================================================================
