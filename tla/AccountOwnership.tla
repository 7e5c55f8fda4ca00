-------------------------- MODULE AccountOwnership --------------------------
(***************************************************************************)
(* What server/mijia_runtime.py promises about the one Xiaomi account of   *)
(* the server, without its locks, counters, threads and network calls:     *)
(* one account at a time, rows of that account only, and an account that   *)
(* was removed comes back only through a login that began afterwards: an   *)
(* attempt begins once, and when an account is forgotten none is open.     *)
(***************************************************************************)
CONSTANTS Users, Jobs, None

VARIABLES
  account,      \* the account whose credential is stored, or None
  rows,         \* the accounts that own rows of the registry
  begun,        \* the login attempts that have begun since the last restart
  open,         \* those that may still be chosen
  storing       \* the one that is storing its credential, or None

vars == <<account, rows, begun, open, storing>>

Init ==
  /\ account = None /\ rows = {}
  /\ begun = {} /\ open = {} /\ storing = None

(* A login attempt begins, and voids every earlier one. *)
Begin(j) ==
  /\ storing = None
  /\ j \notin begun
  /\ begun' = begun \cup {j}
  /\ open' = {j}
  /\ UNCHANGED <<account, rows, storing>>

(* Attempts end without a login: they fail or are voided by a removal. *)
Close ==
  /\ storing = None
  /\ open' \in SUBSET open
  /\ UNCHANGED <<account, rows, begun, storing>>

(* An open attempt was confirmed: it alone may store a credential now. *)
Choose(j) ==
  /\ storing = None
  /\ j \in open
  /\ open' = {}
  /\ storing' = j
  /\ UNCHANGED <<account, rows, begun>>

(* It stores the account u, once no row of another is left... *)
Login(j, u) ==
  /\ storing = j
  /\ account \in {None, u}
  /\ rows \subseteq {u}
  /\ account' = u
  /\ storing' = None
  /\ UNCHANGED <<rows, begun, open>>

(* ... or gives up, with whatever it has removed so far. *)
GiveUp ==
  /\ storing' = None
  /\ UNCHANGED <<account, rows, begun, open>>

(* A removal or a login of another account deletes the credential, and     *)
(* leaves no attempt that began before; the rows follow in a step of their *)
(* own.                                                                    *)
Forget ==
  /\ open = {}
  /\ account' = None
  /\ UNCHANGED <<rows, begun, open, storing>>

Clear ==
  /\ account = None
  /\ rows' = {}
  /\ UNCHANGED <<account, begun, open, storing>>

(* A synchronisation replaces rows by rows of the stored account.           *)
Sync ==
  /\ account # None /\ storing = None
  /\ rows' \in SUBSET (rows \cup {account})
  /\ UNCHANGED <<account, begun, open, storing>>

(* A restart knows of no attempt. *)
Restart ==
  /\ begun' = {} /\ open' = {} /\ storing' = None
  /\ UNCHANGED <<account, rows>>

Next ==
  \/ \E j \in Jobs : Begin(j) \/ Choose(j) \/ \E u \in Users : Login(j, u)
  \/ Close \/ GiveUp \/ Forget \/ Clear \/ Sync \/ Restart

Spec == Init /\ [][Next]_vars

=============================================================================
