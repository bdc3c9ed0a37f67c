--------------------------- MODULE ConnectionStage ---------------------------
(***************************************************************************)
(* The stages of one SSH connection and the transitions between them that  *)
(* SshConnectionStateMachine accepts                                       *)
(* (crates/ssh-core/src/connection_state.rs).                              *)
(***************************************************************************)

Stage == {"Created", "ResolvingDns", "ConnectingTcp", "Handshaking",
          "Authenticating", "OpeningChannel", "Connected", "Closing",
          "Closed", "Cancelled", "Failed"}

(* The stage a new state machine starts in.                                *)
FirstStage == "Created"

ForwardTransition_NoHandshake ==
  {<<"Created", "ResolvingDns">>, <<"ResolvingDns", "ConnectingTcp">>,
   <<"ConnectingTcp", "Handshaking">>, <<"Handshaking", "OpeningChannel">>,
   <<"Authenticating", "OpeningChannel">>, <<"OpeningChannel", "Connected">>,
   <<"Connected", "Closing">>, <<"Closing", "Closed">>,
   <<"Connected", "Closed">>}

(* The order of a connection that meets no error.                          *)
ForwardTransition ==
  {<<"Created", "ResolvingDns">>, <<"ResolvingDns", "ConnectingTcp">>,
   <<"ConnectingTcp", "Handshaking">>, <<"Handshaking", "Authenticating">>,
   <<"Authenticating", "OpeningChannel">>, <<"OpeningChannel", "Connected">>,
   <<"Connected", "Closing">>, <<"Closing", "Closed">>,
   <<"Connected", "Closed">>}

(* The stages an attempt can still be cancelled in, or fail in.            *)
Connecting == Stage \ {"Connected", "Closing", "Closed", "Cancelled", "Failed"}

ValidTransition(from, to) ==
  \/ <<from, to>> \in ForwardTransition
  \/ from \in Connecting /\ to \in {"Cancelled", "Failed"}
=============================================================================
