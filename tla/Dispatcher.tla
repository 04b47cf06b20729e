----------------------------- MODULE Dispatcher -----------------------------
(***************************************************************************)
(* src/protocol/dispatcher.rs: which control message a connection may send *)
(* next.  Transitions lists the accepted (state, kind) pairs with the      *)
(* state that follows; every other pair is DispatchError::ProtocolOrder.   *)
(***************************************************************************)

ConnectionState ==
    {"AwaitHello", "AwaitAuth", "AwaitAttachOrResume", "Attached", "Closed"}

MessageKind ==
    {"Hello", "Auth", "Attach", "Resume", "Resize", "Detach", "Close", "Ping",
     "Pong", "Error"}

Transitions ==
    {<<"AwaitHello", "Hello", "AwaitAuth">>,
     <<"AwaitHello", "Ping", "AwaitHello">>,
     <<"AwaitAuth", "Auth", "AwaitAttachOrResume">>,
     <<"AwaitAuth", "Ping", "AwaitAuth">>,
     <<"AwaitAttachOrResume", "Attach", "Attached">>,
     <<"AwaitAttachOrResume", "Resume", "Attached">>,
     <<"AwaitAttachOrResume", "Close", "Closed">>,
     <<"AwaitAttachOrResume", "Ping", "AwaitAttachOrResume">>,
     <<"Attached", "Resize", "Attached">>,
     <<"Attached", "Detach", "Attached">>,
     <<"Attached", "Ping", "Attached">>,
     <<"Attached", "Close", "Closed">>}

\* on_message accepts `kind` in state `from` and moves to `to`.
on_message(from, kind, to) == <<from, kind, to>> \in Transitions

ProtocolOrder(from, kind) ==
    \A to \in ConnectionState : ~ on_message(from, kind, to)

=============================================================================
