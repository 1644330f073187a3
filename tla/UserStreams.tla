----------------------------- MODULE UserStreams -----------------------------
(***************************************************************************)
(* The user data stream of one account: FuturesUserDataStreamManager and   *)
(* FuturesUserDataConnection of app/core/futures_user_data_*.py.  Every    *)
(* start of a strategy, the start of the program and a new account ask for *)
(* the stream, in tasks of their own.                                      *)
(*                                                                         *)
(* External: a listen key is valid for an hour after it was made, asked    *)
(* for again or kept alive, and time passes in half-hours.                 *)
(***************************************************************************)
EXTENDS Naturals, FiniteSets

CONSTANTS
  Askers,       \* tasks in ensure_stream
  Sockets,      \* FuturesUserDataConnection objects
  Nobody,
  MaxKey        \* bound: listen keys made

ConstantsOK == MaxKey \in Nat /\ Nobody \notin Askers \cup Sockets

Hour == 2       \* half-hours

VARIABLES
  key,          \* the exchange's: the last listen key, and for how long it is valid
  valid,
  holder,       \* _lock
  asking,       \* the tasks
  current,      \* _connections: the account's
  streams,      \* its tasks and those of all the others: _run, _keepalive_loop
  ended         \* stop_all has run: the program is ending

vars == <<key, valid, holder, asking, current, streams, ended>>

Steps == {"idle", "wait", "create", "stop"}
Links == {"new", "off", "up"}           \* of the socket: not made, between two tries, connected
Keepers == {"none", "sleeping", "done", "ended", "failed"}   \* done for this half-hour

NewStream == [link |-> "new", key |-> 0, keeper |-> "none"]

TypeOK ==
  /\ key \in 0..MaxKey /\ valid \in 0..Hour
  /\ holder \in Askers \cup {Nobody} /\ current \in Sockets \cup {Nobody}
  /\ asking \in [Askers -> Steps]
  /\ streams \in [Sockets -> [link : Links, key : 0..MaxKey, keeper : Keepers]]
  /\ ended \in BOOLEAN

Init ==
  /\ key = 0 /\ valid = 0
  /\ holder = Nobody /\ asking = [a \in Askers |-> "idle"]
  /\ current = Nobody /\ streams = [s \in Sockets |-> NewStream]
  /\ ended = FALSE

Running(s) == streams[s].link \in {"off", "up"}
Failed(s) == streams[s].keeper = "failed"

-----------------------------------------------------------------------------
(* ensure_stream and stop_all                                              *)

Ask(a) ==
  /\ asking[a] = "idle" /\ ~ended
  /\ asking' = [asking EXCEPT ![a] = "wait"]
  /\ UNCHANGED <<key, valid, holder, current, streams, ended>>

\* What is_connected says: a connection that is up may still look closed, since later
\* versions of the library have no attribute closed.
LooksUp == current # Nobody /\ streams[current].link = "up"

\* _stop_stream_internal: both tasks are cancelled and waited for.
Stopped == IF current = Nobody THEN streams ELSE [streams EXCEPT ![current] = NewStream]

\* Variant: no lock.
LookUnlocked(a) ==
  /\ asking[a] = "wait"
  /\ \/ LooksUp /\ asking' = [asking EXCEPT ![a] = "idle"] /\ UNCHANGED <<holder, current, streams>>
     \/ /\ streams' = Stopped /\ current' = Nobody /\ UNCHANGED holder
        /\ asking' = [asking EXCEPT ![a] = "create"]
  /\ UNCHANGED <<key, valid, ended>>

\* A stream that runs and is not connected is taken down to be made again.
Look(a) ==
  /\ asking[a] = "wait" /\ holder = Nobody
  /\ \/ LooksUp /\ asking' = [asking EXCEPT ![a] = "idle"] /\ UNCHANGED <<holder, current, streams>>
     \/ /\ streams' = Stopped /\ current' = Nobody /\ holder' = a
        /\ asking' = [asking EXCEPT ![a] = "create"]
  /\ UNCHANGED <<key, valid, ended>>

\* create_listen_key in a thread: the exchange gives the key that is valid, for another
\* hour, or a new one.
CreateKey(a) ==
  /\ asking[a] = "create" /\ (valid > 0 \/ key < MaxKey)
  /\ \E s \in Sockets :
       LET made == IF valid > 0 THEN key ELSE key + 1 IN
       /\ streams[s] = NewStream
       /\ key' = made /\ valid' = Hour
       /\ streams' = [streams EXCEPT ![s] = [link |-> "off", key |-> made, keeper |-> "sleeping"]]
       /\ current' = s
  /\ asking' = [asking EXCEPT ![a] = "idle"]
  /\ holder' = Nobody
  /\ UNCHANGED ended

\* No client, no key, or an error: the account stays without a stream.
CreateFails(a) ==
  /\ asking[a] = "create"
  /\ asking' = [asking EXCEPT ![a] = "idle"] /\ holder' = Nobody
  /\ UNCHANGED <<key, valid, current, streams, ended>>

StopAll ==
  /\ ~ended /\ holder = Nobody
  /\ ended' = TRUE
  /\ streams' = Stopped /\ current' = Nobody
  /\ UNCHANGED <<key, valid, holder, asking>>

-----------------------------------------------------------------------------
(* FuturesUserDataConnection._run: it connects again for as long as it     *)
(* runs, by the key that it was made with.                                 *)

Valid(s) == streams[s].key = key /\ valid > 0

Connect(s) ==
  /\ streams[s].link = "off" /\ Valid(s)
  /\ streams' = [streams EXCEPT ![s].link = "up"]
  /\ UNCHANGED <<key, valid, holder, asking, current, ended>>

Drop(s) ==
  /\ streams[s].link = "up"
  /\ streams' = [streams EXCEPT ![s].link = "off"]
  /\ UNCHANGED <<key, valid, holder, asking, current, ended>>

-----------------------------------------------------------------------------
(* _keepalive_loop                                                         *)

\* Each half-hour.  A loop whose key is no longer in _listen_keys ends, and so does,
\* for good, one whose request fails.
KeepAlive(s) ==
  /\ streams[s].keeper = "sleeping"
  /\ IF current = Nobody \/ streams[current].key # streams[s].key
       THEN streams' = [streams EXCEPT ![s].keeper = "ended"] /\ UNCHANGED valid
       ELSE \/ /\ streams' = [streams EXCEPT ![s].keeper = "done"]
               /\ valid' = IF Valid(s) THEN Hour ELSE valid
            \/ streams' = [streams EXCEPT ![s].keeper = "failed"] /\ UNCHANGED valid
  /\ UNCHANGED <<key, holder, asking, current, ended>>

\* A half-hour passes, in which each loop that was asleep has woken up.  Connections
\* whose key is no longer valid are dropped.
Tick ==
  /\ valid > 0 /\ \A s \in Sockets : streams[s].keeper # "sleeping"
  /\ valid' = valid - 1
  /\ streams' = [s \in Sockets |->
       [streams[s] EXCEPT !.keeper = IF @ = "done" THEN "sleeping" ELSE @,
                          !.link = IF @ = "up" /\ valid = 1 THEN "off" ELSE @]]
  /\ UNCHANGED <<key, holder, asking, current, ended>>

-----------------------------------------------------------------------------
Next ==
  \/ \E a \in Askers : Ask(a) \/ Look(a) \/ CreateKey(a) \/ CreateFails(a)
  \/ \E s \in Sockets : Connect(s) \/ Drop(s) \/ KeepAlive(s)
  \/ StopAll \/ Tick

Spec == Init /\ [][Next]_vars

-----------------------------------------------------------------------------
(* Properties.                                                             *)

\* However many strategies ask for it, and however often its connection has been
\* lost, the account has one stream, and none that has been replaced goes on.
OneStream == \A s \in Sockets : Running(s) => s = current

\* The stream is of a key that is valid, or one of its keep-alives has failed: only
\* then does it go on connecting by a key that never will be.
KeyKept == current # Nobody => Valid(current) \/ Failed(current)
=============================================================================
