----------------------------- MODULE MarkPrices -----------------------------
(***************************************************************************)
(* The mark price stream of one symbol: MarkPriceStreamManager's registry  *)
(* of open positions, its connection, subscription count and REST fallback *)
(* task, and the callers that register and unregister positions.           *)
(*                                                                         *)
(* subscribe sleeps for two seconds between making a connection and        *)
(* connecting it; positions close and open again meanwhile.                *)
(***************************************************************************)
EXTENDS Naturals, FiniteSets

CONSTANTS
  Positions,    \* strategies (and manual trades) that may hold the symbol
  Connections,  \* identities of MarkPriceConnection objects (bound)
  None

ConstantsOK ==
  /\ IsFiniteSet(Positions)
  /\ IsFiniteSet(Connections)
  /\ None \notin Connections

VARIABLES
  registry,    \* the positions in _registry[key]
  connection,  \* _connections[key]
  count,       \* _subscription_counts[key]; 0 if there is none
  sleeping,    \* connections whose subscribe is in its two seconds
  running,     \* connections that connect and listen
  polling,     \* the REST fallback task exists
  superseded   \* history: a subscribe woke up and found another connection

vars == <<registry, connection, count, sleeping, running, polling, superseded>>

TypeOK ==
  /\ registry \subseteq Positions
  /\ connection \in Connections \cup {None}
  /\ count \in {0, 1}
  /\ sleeping \subseteq Connections
  /\ running \subseteq Connections
  /\ polling \in BOOLEAN
  /\ superseded \in BOOLEAN

Init ==
  /\ registry = {}
  /\ connection = None
  /\ count = 0
  /\ sleeping = {}
  /\ running = {}
  /\ polling = FALSE
  /\ superseded = FALSE

-----------------------------------------------------------------------------

\* Variant: a closed position unsubscribes without looking at the registry.
CloseUnchecked(p) ==
  /\ p \in registry
  /\ registry' = registry \ {p}
  /\ connection' = None
  /\ count' = 0
  /\ running' = running \ {connection}
  /\ polling' = FALSE
  /\ UNCHANGED <<sleeping, superseded>>

-----------------------------------------------------------------------------
\* register_position, then subscribe up to its sleep: nothing is awaited in
\* between.  A connection that exists is used as it is, and not counted.
Open(p) ==
  /\ registry' = registry \cup {p}
  /\ IF connection # None
       THEN UNCHANGED <<connection, count, sleeping>>
       ELSE \E c \in Connections \ (sleeping \cup running) :
              /\ connection' = c
              /\ count' = 1
              /\ sleeping' = sleeping \cup {c}
  /\ UNCHANGED <<running, polling, superseded>>

\* subscribe after its sleep: its connection is still the symbol's.
Connect(c) ==
  /\ c \in sleeping
  /\ connection = c
  /\ sleeping' = sleeping \ {c}
  /\ running' = running \cup {c}
  /\ polling' = TRUE
  /\ UNCHANGED <<registry, connection, count, superseded>>

\* ... or it is not: the count is decremented, whoever counted.
Superseded(c) ==
  /\ c \in sleeping
  /\ connection # c
  /\ sleeping' = sleeping \ {c}
  /\ count' = 0
  /\ superseded' = (superseded \/ connection # None)
  /\ UNCHANGED <<registry, connection, running, polling>>

\* unregister_position, then maybe_unsubscribe: the last position takes the
\* connection and the fallback task with it, if the count says so.
Close(p) ==
  /\ p \in registry
  /\ registry' = registry \ {p}
  /\ IF registry' = {} /\ count > 0
       THEN /\ connection' = None
            /\ count' = 0
            /\ running' = running \ {connection}
            /\ polling' = FALSE
       ELSE UNCHANGED <<connection, count, running, polling>>
  /\ UNCHANGED <<sleeping, superseded>>

Next ==
  \/ \E p \in Positions : Open(p) \/ Close(p)
  \/ \E c \in Connections : Connect(c) \/ Superseded(c)

\* A sleep ends.
Fairness == \A c \in Connections : WF_vars(Connect(c) \/ Superseded(c))

Spec == Init /\ [][Next]_vars /\ Fairness

-----------------------------------------------------------------------------
\* There is one connection per symbol: whatever subscribe is still asleep, none
\* listens, or will, besides the one that unsubscribe would find.
OneConnection ==
  /\ running \subseteq {connection}
  /\ polling => connection \in running

\* Every registered position has a connection that listens, or is about to,
\* although a close in between may have thrown away the one it was opened with.
RegisteredIsStreamed ==
  registry # {} => connection \in sleeping \cup running

\* A stream is closed with its last position, unless a position was closed and
\* opened again within the two seconds of a subscribe: then the count of the new
\* subscription has been given back, and nothing closes the connection any more.
UnusedIsClosed ==
  registry = {} /\ ~superseded => connection = None /\ count = 0

=============================================================================
