--------------------------- MODULE TerminalOutput ---------------------------
(***************************************************************************)
(* The output of one terminal session on its way from the server to the    *)
(* screen, and the acknowledgements on their way back:                     *)
(*                                                                         *)
(*   server -> run_session's loop, TerminalOutputFlow (terminal.rs)        *)
(*          -> on_output channel -> handleTerminalOutput (App.tsx)         *)
(*          -> xterm.js -> queueAcknowledgement (App.tsx)                  *)
(*          -> acknowledge_terminal_output -> the session's command queue  *)
(*                                                                         *)
(* The two sides number the batches independently: the loop when it sends  *)
(* one, the window when it receives one.  The window cannot acknowledge    *)
(* anything before start_* has told it the session id, although output may *)
(* already be arriving.  Output is modelled as units numbered in the order *)
(* the server sends them.                                                  *)
(***************************************************************************)
EXTENDS Naturals, Sequences, SequencesExt

CONSTANTS
  BatchMax,       \* OUTPUT_BATCH_MAX_BYTES, in units
  ChunkMax,       \* the largest chunk the shell hands over, in units
  MaxInFlight,    \* OUTPUT_MAX_IN_FLIGHT_BATCHES
  QueueCapacity,  \* COMMAND_QUEUE_CAPACITY
  MaxOutput       \* bound on the units the server sends

ASSUME OutputAssumption ==
  /\ BatchMax \in Nat \ {0} /\ ChunkMax \in Nat \ {0}
  /\ MaxInFlight \in Nat \ {0} /\ QueueCapacity \in Nat \ {0}
  /\ MaxOutput \in Nat

VARIABLES
  loop,         \* "running", "ended", or "failed" when the channel is gone
  produced,     \* units read from the shell
  pending,      \* TerminalOutputFlow.pending; its deadline is set with it
  inFlight,     \* TerminalOutputFlow.in_flight
  nextSequence, \* TerminalOutputFlow.next_sequence
  inbox,        \* the session's command queue
  channel,      \* batches sent on on_output and not yet received
  received,     \* receivedSequence
  writing,      \* batches xterm.js has been given and not yet parsed
  screen,       \* the units on the screen
  processed,    \* processedSequence
  queued,       \* queuedSequence
  ackCalls,     \* acknowledgementQueue: the calls it still has to make
  responded,    \* is acknowledgementSessionId set?
  current       \* connectionAttemptRef.current === attempt

flowVars == <<pending, inFlight, nextSequence>>
loopVars == <<loop, produced, flowVars, inbox>>
ackVars == <<processed, queued, ackCalls>>
windowVars == <<received, writing, screen, ackVars, responded, current>>
outputVars == <<loopVars, channel, windowVars>>

Unit == 1..MaxOutput
Command == [type : {"AcknowledgeOutput"}, sequence : Nat] \cup [type : {"Write"}]

OutputTypeOK ==
  /\ loop \in {"running", "ended", "failed"}
  /\ produced \in 0..MaxOutput
  /\ pending \in Seq(Unit)
  /\ inFlight \in Seq(Nat)
  /\ nextSequence \in Nat \ {0}
  /\ inbox \in Seq(Command) /\ Len(inbox) <= QueueCapacity
  /\ channel \in Seq(Seq(Unit))
  /\ received \in Nat
  /\ writing \in Seq([sequence : Nat, data : Seq(Unit)])
  /\ screen \in Seq(Unit)
  /\ processed \in Nat /\ queued \in Nat
  /\ ackCalls \in Seq(Nat)
  /\ responded \in BOOLEAN /\ current \in BOOLEAN

OutputInit ==
  /\ loop = "running" /\ produced = 0
  /\ pending = <<>> /\ inFlight = <<>> /\ nextSequence = 1
  /\ inbox = <<>> /\ channel = <<>>
  /\ received = 0 /\ writing = <<>> /\ screen = <<>>
  /\ processed = 0 /\ queued = 0 /\ ackCalls = <<>>
  /\ responded = FALSE /\ current = TRUE

-----------------------------------------------------------------------------
(* TerminalOutputFlow                                                      *)

CanRead_Unbounded == TRUE

CanRead == Len(inFlight) < MaxInFlight

(* flush(): the batch is sent, and in flight until it is acknowledged.     *)
Flush_KeepsPending(data) ==
  /\ pending' = data
  /\ IF data = <<>> THEN UNCHANGED <<channel, inFlight, nextSequence>>
     ELSE /\ channel' = Append(channel, data)
          /\ inFlight' = Append(inFlight, nextSequence)
          /\ nextSequence' = nextSequence + 1

Flush(data) ==
  /\ pending' = <<>>
  /\ IF data = <<>> THEN UNCHANGED <<channel, inFlight, nextSequence>>
     ELSE /\ channel' = Append(channel, data)
          /\ inFlight' = Append(inFlight, nextSequence)
          /\ nextSequence' = nextSequence + 1

(* The channel is gone: the batch is lost and nothing is in flight.        *)
FlushFails == /\ pending' = <<>>
              /\ UNCHANGED <<channel, inFlight, nextSequence>>

(* Acknowledgements are cumulative: the batches in flight are popped from  *)
(* the front.  One for a batch that has not been sent is ignored.          *)
Acknowledge(sequence) ==
  \/ sequence >= nextSequence /\ UNCHANGED inFlight
  \/ /\ sequence < nextSequence
     /\ \E n \in 0..Len(inFlight) :
          /\ \A i \in 1..n : inFlight[i] <= sequence
          /\ n < Len(inFlight) => inFlight[n + 1] > sequence
          /\ inFlight' = SubSeq(inFlight, n + 1, Len(inFlight))

-----------------------------------------------------------------------------
(* The loop of run_session                                                 *)

(* A chunk is read and, when the batch is full, sent.                      *)
ReadOutput(n) ==
  /\ loop = "running" /\ CanRead
  /\ produced + n <= MaxOutput
  /\ produced' = produced + n
  /\ LET data == pending \o [i \in 1..n |-> produced + i]
     IN  IF Len(data) >= BatchMax
         THEN \/ Flush(data) /\ UNCHANGED loop
              \/ FlushFails /\ loop' = "failed"
         ELSE pending' = data /\ UNCHANGED <<loop, channel, inFlight, nextSequence>>
  /\ UNCHANGED <<inbox, windowVars>>

(* The flush deadline, which does not ask whether the window is full.      *)
FlushDeadline ==
  /\ loop = "running" /\ pending # <<>>
  /\ \/ Flush(pending) /\ UNCHANGED loop
     \/ FlushFails /\ loop' = "failed"
  /\ UNCHANGED <<produced, inbox, windowVars>>

(* A write that fails ends the loop; see LoopEnds.                         *)
TakeCommand ==
  /\ loop = "running" /\ inbox # <<>>
  /\ inbox' = Tail(inbox)
  /\ IF Head(inbox).type = "AcknowledgeOutput"
     THEN Acknowledge(Head(inbox).sequence)
     ELSE UNCHANGED inFlight
  /\ UNCHANGED <<loop, produced, pending, nextSequence, channel, windowVars>>

(* The session is closed, or the shell, the transport or a command fails:  *)
(* what is pending is sent and the queue is dropped.                       *)
LoopEnds_Discards ==
  /\ loop = "running"
  /\ loop' = "ended"
  /\ inbox' = <<>>
  /\ pending' = <<>>
  /\ UNCHANGED <<channel, inFlight, nextSequence, produced, windowVars>>

LoopEnds ==
  /\ loop = "running"
  /\ inbox' = <<>>
  /\ \/ Flush(pending) /\ loop' = "ended"
     \/ FlushFails /\ loop' = "failed"
  /\ UNCHANGED <<produced, windowVars>>

-----------------------------------------------------------------------------
(* The window                                                              *)

(* queueAcknowledgement, with the session id known or not.                 *)
QueueAcknowledgement_NeedsNew(sequence, known) ==
  /\ processed' = sequence
  /\ IF ~known \/ processed' <= processed
     THEN UNCHANGED <<queued, ackCalls>>
     ELSE /\ queued' = processed'
          /\ ackCalls' = Append(ackCalls, processed')

QueueAcknowledgement(sequence, known) ==
  /\ processed' = IF sequence > processed THEN sequence ELSE processed
  /\ IF ~known \/ processed' <= queued
     THEN UNCHANGED <<queued, ackCalls>>
     ELSE /\ queued' = processed'
          /\ ackCalls' = Append(ackCalls, processed')

(* handleTerminalOutput: once the attempt has been superseded, output is   *)
(* acknowledged and thrown away.                                           *)
ReceiveOutput_StopsCounting ==
  /\ channel # <<>>
  /\ channel' = Tail(channel)
  /\ IF current
     THEN /\ received' = received + 1
          /\ writing' = Append(writing, [sequence |-> received + 1,
                                         data |-> Head(channel)])
     ELSE UNCHANGED <<received, writing>>
  /\ UNCHANGED <<loopVars, screen, ackVars, responded, current>>

ReceiveOutput ==
  /\ channel # <<>>
  /\ channel' = Tail(channel)
  /\ received' = received + 1
  /\ IF current
     THEN /\ writing' = Append(writing, [sequence |-> received + 1,
                                         data |-> Head(channel)])
          /\ UNCHANGED ackVars
     ELSE QueueAcknowledgement(received + 1, responded) /\ UNCHANGED writing
  /\ UNCHANGED <<loopVars, screen, responded, current>>

(* xterm.js has parsed a batch and calls back.                             *)
ParseOutput ==
  /\ writing # <<>>
  /\ writing' = Tail(writing)
  /\ screen' = screen \o Head(writing).data
  /\ QueueAcknowledgement(Head(writing).sequence, responded)
  /\ UNCHANGED <<loopVars, channel, received, responded, current>>

(* start_* resolves: what was processed before is acknowledged now.        *)
Respond ==
  /\ ~responded
  /\ responded' = TRUE
  /\ QueueAcknowledgement(processed, TRUE)
  /\ UNCHANGED <<loopVars, channel, received, writing, screen, current>>

(* The next acknowledge_terminal_output call enters the command queue, or  *)
(* fails because the session is gone.                                      *)
SendAcknowledgement ==
  /\ ackCalls # <<>>
  /\ ackCalls' = Tail(ackCalls)
  /\ \/ /\ loop = "running"
        /\ Len(inbox) < QueueCapacity
        /\ inbox' = Append(inbox, [type |-> "AcknowledgeOutput",
                                   sequence |-> Head(ackCalls)])
     \/ loop # "running" /\ UNCHANGED inbox
  /\ UNCHANGED <<loop, produced, flowVars, channel, received, writing, screen,
                 processed, queued, responded, current>>

(* write_terminal or resize_terminal.                                      *)
SendWrite ==
  /\ loop = "running" /\ responded
  /\ Len(inbox) < QueueCapacity
  /\ inbox' = Append(inbox, [type |-> "Write"])
  /\ UNCHANGED <<loop, produced, flowVars, channel, windowVars>>

(* Another connection attempt begins, or this one is cancelled.            *)
Supersede ==
  /\ current
  /\ current' = FALSE
  /\ UNCHANGED <<loopVars, channel, received, writing, screen, ackVars, responded>>

OutputNext ==
  \/ \E n \in 1..ChunkMax : ReadOutput(n)
  \/ FlushDeadline \/ TakeCommand \/ LoopEnds
  \/ ReceiveOutput \/ ParseOutput \/ Respond \/ SendAcknowledgement
  \/ SendWrite \/ Supersede

OutputSpec == OutputInit /\ [][OutputNext]_outputVars

(* The deadline passes, the loop takes its commands first (the select is   *)
(* biased), the channel and xterm.js deliver, and start_* responds.  The   *)
(* server and the user owe nothing.  The command queue is fair to its      *)
(* senders (a semaphore), hence the strong fairness of the acknowledgement.*)
OutputFairness ==
  /\ WF_outputVars(FlushDeadline) /\ WF_outputVars(TakeCommand)
  /\ WF_outputVars(ReceiveOutput) /\ WF_outputVars(ParseOutput)
  /\ WF_outputVars(Respond) /\ SF_outputVars(SendAcknowledgement)

FairOutputSpec == OutputSpec /\ OutputFairness
-----------------------------------------------------------------------------
(* The sequence numbers of the two sides, counted independently, agree:    *)
(* the batches in flight are the last ones sent, none that the window      *)
(* has not yet received is taken for acknowledged, and an acknowledgement  *)
(* never runs ahead of what the window has processed.                      *)
SequencesAgree ==
  /\ \A i \in DOMAIN inFlight : inFlight[i] = nextSequence - Len(inFlight) + i - 1
  /\ nextSequence - 1 = received + Len(channel)
  /\ nextSequence - 1 - Len(inFlight) <= processed
  /\ queued <= processed /\ processed <= received

(* Backpressure: no more batches are in flight than the window allows, and *)
(* when it is full nothing is pending, so that the deadline, which does    *)
(* not look at the window, has nothing to add to it.                       *)
WindowIsBounded ==
  /\ Len(inFlight) <= MaxInFlight
  /\ Len(inFlight) = MaxInFlight => pending = <<>>

(* Everything the loop reads reaches the screen once and in order, as long *)
(* as the window shows this session and its channel exists.                *)
OutputInOrder ==
  current /\ loop # "failed" =>
    screen \o FlattenSeq([i \in DOMAIN writing |-> writing[i].data])
           \o FlattenSeq(channel) \o pending
      = [i \in 1..produced |-> i]

(* The loop never waits in vain: while the window is full, the batch or    *)
(* the acknowledgement that will open it is on its way.                    *)
FullWindowOpens ==
  loop = "running" /\ ~CanRead =>
    \/ channel # <<>> \/ writing # <<>> \/ ~responded \/ ackCalls # <<>>
    \/ \E i \in DOMAIN inbox : inbox[i].type = "AcknowledgeOutput"

(* Every unit read is shown, the last ones of a session that ends included,*)
(* unless the window has turned to another connection.                     *)
OutputIsShown ==
  \A u \in Unit : produced >= u ~>
    \/ \E i \in DOMAIN screen : screen[i] = u
    \/ ~current \/ loop = "failed"
=============================================================================
