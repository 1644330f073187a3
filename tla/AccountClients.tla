--------------------------- MODULE AccountClients ---------------------------
(***************************************************************************)
(* The accounts of one user and the clients that trade for them: rows      *)
(* written by app/api/routes/accounts.py through account_service.py and    *)
(* database_service.py, and the clients of binance_client_manager.py, kept *)
(* by name, that strategy_account_manager.py, manual_trading_service.py    *)
(* and the registration of a strategy make from them.                      *)
(*                                                                         *)
(* A row is known by its keys: an account that is deleted and created      *)
(* again has others.  No request changes the keys of a row.                *)
(***************************************************************************)
EXTENDS Naturals, FiniteSets

CONSTANTS
  Names,        \* account_id, "default" among them
  Default,
  MaxKeys,      \* bound: keys of accounts one after another
  Loaders,      \* requests in threads of their own that make a client
  Env,          \* the client of the environment's keys
  None

ConstantsOK ==
  /\ Default \in Names /\ MaxKeys \in Nat
  /\ Env # None /\ {Env, None} \cap (0..MaxKeys) = {}

VARIABLES
  rows,         \* accounts: keys and is_active
  creating,     \* rows of requests that are not committed
  used,         \* keys used so far
  clients,      \* _clients: the keys a client was made of
  known,        \* _accounts
  loader,       \* what each loader has read and not yet made a client of
  handed,       \* history: the client that was last handed out, and for what
  behind        \* history: names whose client was last made, or left, by a request overtaken

vars == <<rows, creating, used, clients, known, loader, handed, behind>>

Keys == 1..MaxKeys
Row == [keys : Keys, active : BOOLEAN]
Idle == [name |-> None, keys |-> None]

TypeOK ==
  /\ rows \in [Names -> Row \cup {None}] /\ creating \in [Names -> Keys \cup {None}]
  /\ used \in 0..MaxKeys
  /\ clients \in [Names -> Keys \cup {Env, None}] /\ known \subseteq Names
  /\ loader \in [Loaders -> [name : Names, keys : Keys] \cup {Idle}]
  /\ handed \in [name : Names \cup {None}, client : Keys \cup {Env, None}]
  /\ behind \subseteq Names

Nobody == [name |-> None, client |-> None]
NoClients == [n \in Names |-> None]

\* The environment's client, when it can be had.
Started ==
  \E env \in {Env, None} :
    /\ clients' = [NoClients EXCEPT ![Default] = env]
    /\ known' = {} /\ loader' = [l \in Loaders |-> Idle]
    /\ handed' = Nobody /\ behind' = {}

Init ==
  /\ rows = NoClients /\ creating = NoClients /\ used = 0
  /\ \E env \in {Env, None} : clients = [NoClients EXCEPT ![Default] = env]
  /\ known = {} /\ loader = [l \in Loaders |-> Idle]
  /\ handed = Nobody /\ behind = {}

Restart ==
  /\ Started /\ creating' = NoClients
  /\ UNCHANGED <<rows, used>>

-----------------------------------------------------------------------------
(* Requests.                                                               *)

Active(name) == rows[name] # None /\ rows[name].active

\* add_client
AddClients(names, keysOf) ==
  /\ clients' = [n \in Names |-> IF n \in names THEN keysOf[n] ELSE clients[n]]
  /\ known' = known \cup names

\* create_account: the row is written, a client of its keys takes the place of an
\* older one, unless it refuses the keys, and only then the request commits.
Create(name) ==
  /\ rows[name] = None /\ creating[name] = None /\ used < MaxKeys
  /\ used' = used + 1 /\ creating' = [creating EXCEPT ![name] = used + 1]
  /\ \/ AddClients({name}, [n \in {name} |-> used + 1]) /\ behind' = behind \ {name}
     \/ behind' = behind \cup {name} /\ UNCHANGED <<clients, known>>
  /\ UNCHANGED <<rows, loader, handed>>

Commit(name) ==
  /\ creating[name] # None
  /\ rows' = [rows EXCEPT ![name] = [keys |-> creating[name], active |-> TRUE]]
  /\ creating' = [creating EXCEPT ![name] = None]
  /\ UNCHANGED <<used, clients, known, loader, handed, behind>>

CommitFails(name) ==
  /\ creating[name] # None
  /\ creating' = [creating EXCEPT ![name] = None]
  /\ UNCHANGED <<rows, used, clients, known, loader, handed, behind>>

\* update_account: the client stays, be the account active or not.
Update(name, active) ==
  /\ rows[name] # None
  /\ rows' = [rows EXCEPT ![name].active = active]
  /\ UNCHANGED <<creating, used, clients, known, loader, handed, behind>>

\* delete_account, of an account without strategies.
Delete(name) ==
  /\ rows[name] # None
  /\ rows' = [rows EXCEPT ![name] = None]
  /\ UNCHANGED <<creating, used, clients, known, loader, handed, behind>>

Hand(name, client) == handed' = [name |-> name, client |-> client]

\* Variant: what cannot be loaded falls back, whatever its name.
GetFallingBack(name) ==
  /\ \/ clients[name] # None /\ Hand(name, clients[name]) /\ UNCHANGED <<clients, known, behind>>
     \/ /\ clients[name] = None /\ Active(name)
        /\ AddClients({name}, [n \in {name} |-> rows[name].keys])
        /\ Hand(name, rows[name].keys) /\ behind' = behind \ {name}
     \/ /\ clients[name] = None /\ clients[Default] # None
        /\ Hand(name, clients[Default]) /\ UNCHANGED <<clients, known, behind>>
  /\ UNCHANGED <<rows, creating, used, loader>>

\* get_account_client of a runner: the client there is, or one made of the row.  The
\* runner's own client, that the default account falls back to, is the environment's,
\* and that is there from the start when it could be had at all.
Get(name) ==
  /\ \/ clients[name] # None /\ Hand(name, clients[name]) /\ UNCHANGED <<clients, known, behind>>
     \/ /\ clients[name] = None /\ Active(name)
        /\ AddClients({name}, [n \in {name} |-> rows[name].keys])
        /\ Hand(name, rows[name].keys) /\ behind' = behind \ {name}
  /\ UNCHANGED <<rows, creating, used, loader>>

\* register: unless the account is known, all active ones get new clients.
Register(name) ==
  LET active == {n \in Names : Active(n)} IN
  /\ name \notin known /\ active # {}
  /\ AddClients(active, [n \in active |-> rows[n].keys])
  /\ behind' = behind \ active
  /\ UNCHANGED <<rows, creating, used, loader, handed>>

\* _get_client of a manual trade, and the list of positions: in a thread.
Read(l, name) ==
  /\ loader[l] = Idle /\ clients[name] = None /\ Active(name)
  /\ loader' = [loader EXCEPT ![l] = [name |-> name, keys |-> rows[name].keys]]
  /\ UNCHANGED <<rows, creating, used, clients, known, handed, behind>>

Made(l) ==
  LET name == loader[l].name
      fresh == rows[name] # None /\ rows[name].keys = loader[l].keys /\ creating[name] = None IN
  /\ loader[l] # Idle
  /\ AddClients({name}, [n \in {name} |-> loader[l].keys]) /\ Hand(name, loader[l].keys)
  /\ behind' = IF fresh THEN behind \ {name} ELSE behind \cup {name}
  /\ loader' = [loader EXCEPT ![l] = Idle]
  /\ UNCHANGED <<rows, creating, used>>

Next ==
  \/ Restart
  \/ \E name \in Names :
       \/ Create(name) \/ Commit(name) \/ CommitFails(name)
       \/ \E active \in BOOLEAN : Update(name, active)
       \/ Delete(name) \/ Get(name) \/ Register(name)
       \/ \E l \in Loaders : Read(l, name)
  \/ \E l \in Loaders : Made(l)

Spec == Init /\ [][Next]_vars

-----------------------------------------------------------------------------
(* Properties.                                                             *)

\* A client that was made for an account that is there has that account's keys,
\* however often the name was used before: unless they were refused, or the one who
\* made it was overtaken.
KeysOfRow ==
  \A n \in Names \ behind :
    rows[n] # None /\ clients[n] \notin {Env, None} => clients[n] = rows[n].keys

\* Whoever asks for an account gets a client of that account, or of the environment
\* for the default account; never of another account.
OwnClient ==
  [][handed' # handed /\ handed'.client # None =>
       LET n == handed'.name IN
       \/ handed'.client = Env /\ n = Default
       \/ handed'.client \in Keys /\ clients'[n] = handed'.client]_vars
=============================================================================
