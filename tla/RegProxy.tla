------------------------------ MODULE RegProxy ------------------------------
(***************************************************************************)
(* CRegProxy: the loop that keeps the device connected to the server.  It  *)
(* runs as the one callback of a Poco timer that fires once, so that an    *)
(* exception nobody catches ends it for good.                              *)
(*                                                                         *)
(* Its socket is shared with the threads that answer requests (handleNf)   *)
(* and that announce a reboot or a mobile (handleMessage): DeviceLink says *)
(* what they do.  As long as it runs no other thread changes m_sock, so    *)
(* that only a write to it ends a step.  m_ssl_sock is used by the loop    *)
(* only and left out.  Time is counted in units of the poll's five         *)
(* seconds.                                                                *)
(***************************************************************************)
EXTENDS Integers

CONSTANTS
  Addrs,             \* where sockets can be allocated
  CheckPeriod,       \* m_checkPeriod (30 s, that is 6)
  KeepAliveTimeout,  \* m_keepAliveTimeout (2 minutes, that is 24)
  PollTime,          \* the poll's timeout (5 s, that is 1)
  IoTime             \* the longest a send or a receive takes (10 s, that is 2)

ASSUME RegProxyAssumption ==
  /\ CheckPeriod \in Nat \ {0} /\ KeepAliveTimeout \in Nat
  /\ PollTime \in Nat /\ IoTime \in Nat
  /\ CheckPeriod <= KeepAliveTimeout
  /\ "null" \notin Addrs

VARIABLES
  started,    \* m_started
  loop,       \* where the loop stands
  sock,       \* m_sock
  age,        \* how long ago m_lastCheckTime is
  quiet,      \* history: how long ago the server was last written to with success
  lamp,       \* is the error lamp lit?
  unlit       \* history: the link was given up without lighting the lamp

proxyVars == <<started, loop, sock, age, quiet, lamp, unlit>>

Limit == KeepAliveTimeout + 2 * IoTime + PollTime
Over == {"ended", "dead"}
Null == "null"

ProxyTypeOK ==
  /\ started \in BOOLEAN /\ lamp \in BOOLEAN /\ unlit \in BOOLEAN
  /\ loop \in {"top", "register", "sleep", "check"} \cup Over
  /\ sock \in Addrs \cup {Null}
  /\ age \in 0 .. Limit /\ quiet \in 0 .. Limit

\* As start() leaves it.
ProxyInit ==
  /\ started = TRUE /\ loop = "top" /\ sock = Null
  /\ age = 0 /\ quiet = 0
  /\ lamp = TRUE /\ unlit = FALSE

Go(l) == loop' = l
Stay == UNCHANGED <<started, sock, age, quiet, lamp, unlit>>
Pass(d) == age' = age + d /\ quiet' = quiet + d

\* dealError(PLAIN_SOCKET).  Time is counted while there is a connection.
DealError == sock' = Null /\ age' = 0 /\ quiet' = 0

-----------------------------------------------------------------------------
(* onTimer, and registerToServer when there is no connection. *)

Disconnected == loop = "top" /\ started /\ sock = Null

EndLoop == loop = "top" /\ ~ started /\ Go("ended") /\ Stay

\* getRegisterToken succeeds, and the socket is in m_sock before it is connected.
Connect ==
  /\ Disconnected
  /\ \E a \in Addrs : sock' = a
  /\ Go("register")
  /\ UNCHANGED <<started, age, quiet, lamp, unlit>>

\* Mutant: the loop is left.
TokenFailsForGood == Disconnected /\ Go("ended") /\ Stay

TokenFails == Disconnected /\ Go("sleep") /\ Stay

\* The host's name cannot be resolved, for either of the two connections.
ResolveThrows == Disconnected /\ Go("dead") /\ Stay

Registered ==
  /\ loop = "register"
  /\ age' = 0 /\ quiet' = 0
  /\ lamp' = FALSE /\ unlit' = FALSE
  /\ Go("top")
  /\ UNCHANGED <<started, sock>>

RegisterFails ==
  /\ loop = "register"
  /\ DealError
  /\ Go("sleep")
  /\ UNCHANGED <<started, lamp, unlit>>

\* Nothing catches what setting a timeout of the new socket throws.
RegisterThrows == loop = "register" /\ Go("dead") /\ Stay

Sleep == loop = "sleep" /\ Go("top") /\ Stay

-----------------------------------------------------------------------------
(* onTimer when there is one. *)

Connected == loop = "top" /\ started /\ sock # Null

\* Nothing to read in five seconds.
PollNothing ==
  /\ Connected
  /\ Pass(PollTime)
  /\ Go("check")
  /\ UNCHANGED <<started, sock, lamp, unlit>>

PollThrows == Connected /\ Go("dead") /\ Stay

Receive ==
  /\ Connected
  /\ \E d \in 0 .. PollTime + IoTime : Pass(d)
  /\ Go("check")
  /\ UNCHANGED <<started, sock, lamp, unlit>>

\* Mutant: the lamp stays dark.
ReceiveFailsUnlit ==
  /\ Connected
  /\ DealError
  /\ UNCHANGED <<started, loop, lamp, unlit>>

\* An error, the end of the stream, or nothing for ten seconds.
ReceiveFails ==
  /\ Connected
  /\ lamp' = TRUE
  /\ DealError
  /\ UNCHANGED <<started, loop, unlit>>

NoCheck == loop = "check" /\ age < CheckPeriod /\ Go("top") /\ Stay

\* sendKeepAlive.  m_lastCheckTime is the time before the packet is sent.
SendKeepAlive ==
  /\ loop = "check" /\ age >= CheckPeriod
  /\ \E d \in 0 .. IoTime : age' = d
  /\ quiet' = 0
  /\ Go("top")
  /\ UNCHANGED <<started, sock, lamp, unlit>>

\* Mutant: a packet that could not be sent counts.
KeepAliveFailsCounted ==
  /\ loop = "check" /\ age >= CheckPeriod
  /\ \E d \in 0 .. IoTime : age' = d /\ quiet' = quiet + d
  /\ Go("top")
  /\ UNCHANGED <<started, sock, lamp, unlit>>

\* After two minutes the connection is given up; the lamp stays dark.
KeepAliveFails ==
  /\ loop = "check" /\ age >= CheckPeriod
  /\ IF age > KeepAliveTimeout
     THEN DealError /\ unlit' = TRUE
     ELSE (\E d \in 0 .. IoTime : Pass(d)) /\ UNCHANGED <<sock, unlit>>
  /\ Go("top")
  /\ UNCHANGED <<started, lamp>>

KeepAliveThrows == loop = "check" /\ age >= CheckPeriod /\ Go("dead") /\ Stay

-----------------------------------------------------------------------------
(* Properties. *)

\* The lamp shows whether the device is registered, as long as the loop runs;
\* except after a keep-alive timeout, which leaves it dark until the device is
\* registered again (RegProxy.cpp:508-512).
LampTruth ==
  started /\ loop \notin Over =>
    (lamp <=> sock = Null \/ loop = "register") \/ (unlit /\ ~ lamp)

\* A connection on which nothing can be sent is given up in time: whenever the
\* loop comes round, the last success is at most a timeout and a send old
\* (RegProxy.cpp:498-513).
SilentLinkDropped ==
  loop = "top" /\ sock # Null => quiet <= KeepAliveTimeout + IoTime
=============================================================================
