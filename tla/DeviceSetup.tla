----------------------------- MODULE DeviceSetup -----------------------------
(***************************************************************************)
(* The config flow (config_flow.py) with what it does to the device: each  *)
(* submitted form is a coroutine that finds a token, given, taken from the *)
(* configuration backup (token.py) or minted for a user of its own         *)
(* (provisioning.py), tries it on the device (auth.py) and saves an entry. *)
(* Nothing undoes the steps taken before one that fails.                   *)
(***************************************************************************)
EXTENDS Naturals, FiniteSets

CONSTANTS
  Forms,    \* submissions, one coroutine each
  Phones,   \* the users the device may have already
  None,
  Last,     \* the last slot of the user table
  Hosts,    \* addresses the device gets from its router
  Mac,      \* its hardware address
  MaxMoves, \* bound: changes of the device's address
  MaxResets \* bound: activations reset on the device's web page

ASSUME ConstantsAssumption ==
  /\ Forms \cap Phones = {} /\ None \notin Forms \cup Phones \cup Hosts
  /\ None \notin [host : Hosts, token : Forms \cup Phones]
  /\ Last \in Nat /\ Mac \notin Hosts \cup {None}
  /\ {MaxMoves, MaxResets} \subseteq Nat

VARIABLES
  \* the device
  table,    \* name and token of each slot; a token is the user it was minted for
  pending,  \* the activation code that waits in each slot
  archive,  \* the table in the newest backup file
  address,
  \* Home Assistant
  entries,  \* config entries by their unique id
  \* the coroutine of each form
  pc, kind, wants, host, token, target, code, subject,
  moves, resets,
  contested \* history: slots taken from an old backup, or while another form was at them

device == <<table, pending, archive>>
form == <<kind, wants, host, token, target, code, subject>>
vars == <<device, address, entries, pc, form, moves, resets, contested>>

Slots == 0 .. Last
Users == Phones \cup Forms
Ids == Hosts \cup {Mac}
Row == [name : Users \cup {None}, token : Users \cup {None}]
Entry == [host : Hosts, token : Users]
Requests == {"login", "listing", "kind", "name", "enabled", "code", "page", "redeem", "testing"}
Making == {"kind", "name", "enabled", "code", "page", "redeem"}
Ended == {"failed", "aborted", "done"}
Places == Requests \cup Ended \cup {"idle", "confirm", "saving"}

TypeOK ==
  /\ table \in [Slots -> Row] /\ pending \in [Slots -> Forms \cup {None}]
  /\ archive \in [Slots -> Row] /\ address \in Hosts
  /\ entries \in [Ids -> Entry \cup {None}]
  /\ pc \in [Forms -> Places]
  /\ kind \in [Forms -> {"user", "dhcp", "reauth", "reconfigure"}]
  /\ wants \in [Forms -> {"given", "backup", "user"}]
  /\ host \in [Forms -> Hosts] /\ token \in [Forms -> Users \cup {None}]
  /\ target \in [Forms -> Slots] /\ code \in [Forms -> Forms \cup {None}]
  /\ subject \in [Forms -> Ids]
  /\ moves \in 0 .. MaxMoves /\ resets \in 0 .. MaxResets
  /\ contested \subseteq Slots

\* Slot 0 is the wall monitor's, which may have neither a name nor a token.
Init ==
  /\ \E used \in [Slots -> Phones \cup {None}] :
       /\ \A s, t \in Slots : used[s] = used[t] /\ used[s] # None => s = t
       /\ table = [s \in Slots |-> [name |-> used[s], token |-> used[s]]]
  /\ pending = [s \in Slots |-> None] /\ archive = table
  /\ address \in Hosts /\ entries = [i \in Ids |-> None]
  /\ pc = [f \in Forms |-> "idle"] /\ kind = [f \in Forms |-> "user"]
  /\ wants = [f \in Forms |-> "given"] /\ host = [f \in Forms |-> address]
  /\ token = [f \in Forms |-> None] /\ target = [f \in Forms |-> 0]
  /\ code = [f \in Forms |-> None] /\ subject = [f \in Forms |-> Mac]
  /\ moves = 0 /\ resets = 0 /\ contested = {}
-----------------------------------------------------------------------------
(* A form is submitted *)

Working(f) == pc[f] \in Requests \cup {"saving"}
Accepted(t) == \E s \in Slots : table[s].token = t

\* The token comes with the form, from the backup, or with a user of its own.
Submits(f, w) ==
  /\ wants' = [wants EXCEPT ![f] = w]
  /\ IF w = "given"
     THEN /\ pc' = [pc EXCEPT ![f] = "testing"]
          /\ \E p \in Phones : token' = [token EXCEPT ![f] = p]
     ELSE pc' = [pc EXCEPT ![f] = "login"] /\ token' = [token EXCEPT ![f] = None]
  /\ UNCHANGED <<device, address, target, code, moves, resets, contested>>

UserForm(f) ==
  /\ pc[f] = "idle" /\ \E w \in {"given", "backup", "user"} : Submits(f, w)
  /\ kind' = [kind EXCEPT ![f] = "user"] /\ host' = [host EXCEPT ![f] = address]
  /\ UNCHANGED <<subject, entries>>

\* A discovered device: a known one has its host brought up to date. Home Assistant lets
\* one flow at a time be about it.
DhcpDiscovers(f) ==
  /\ pc[f] = "idle" /\ \A g \in Forms : kind[g] = "dhcp" => pc[g] \in Ended
  /\ IF entries[Mac] # None
     THEN /\ entries' = [entries EXCEPT ![Mac].host = address]
          /\ pc' = [pc EXCEPT ![f] = "done"] /\ UNCHANGED <<kind, host>>
     ELSE /\ pc' = [pc EXCEPT ![f] = "confirm"] /\ kind' = [kind EXCEPT ![f] = "dhcp"]
          /\ host' = [host EXCEPT ![f] = address] /\ UNCHANGED entries
  /\ UNCHANGED <<device, address, wants, token, target, code, subject, moves, resets,
                 contested>>

DhcpConfirm(f) ==
  /\ pc[f] = "confirm" /\ \E w \in {"given", "backup"} : Submits(f, w)
  /\ UNCHANGED <<kind, host, subject, entries>>

\* An entry whose token the device does not accept is authenticated again, once at a time.
ReauthForm(f) ==
  /\ pc[f] = "idle" /\ \E w \in {"given", "backup"} : Submits(f, w)
  /\ \E i \in Ids :
       /\ entries[i] # None /\ ~Accepted(entries[i].token)
       /\ \A g \in Forms : ~(kind[g] = "reauth" /\ subject[g] = i /\ Working(g))
       /\ subject' = [subject EXCEPT ![f] = i] /\ host' = [host EXCEPT ![f] = entries[i].host]
  /\ kind' = [kind EXCEPT ![f] = "reauth"] /\ UNCHANGED entries

ReconfigureForm(f) ==
  /\ pc[f] = "idle" /\ \E w \in {"given", "backup"} : Submits(f, w)
  /\ \E i \in Ids : entries[i] # None /\ subject' = [subject EXCEPT ![f] = i]
  /\ kind' = [kind EXCEPT ![f] = "reconfigure"] /\ host' = [host EXCEPT ![f] = address]
  /\ UNCHANGED entries
-----------------------------------------------------------------------------
(* The token *)

\* A request answered by the device; each may instead fail or time out (Fails).
Asks(f, from) == pc[f] = from /\ host[f] = address
Goes(f, to) == pc' = [pc EXCEPT ![f] = to]
SameForm == UNCHANGED <<address, entries, kind, wants, host, subject, moves, resets>>

\* Logged in; a backup is created, perhaps from before the last writes.
MakesBackup(f) ==
  /\ Asks(f, "login") /\ Goes(f, "listing")
  /\ archive' \in {archive, table}
  /\ UNCHANGED <<table, pending, token, target, code, contested>> /\ SameForm

\* Mutant: a slot with a name but no token counts as free.
FreeSlots_Unactivated == {s \in Slots \ {0} : archive[s].token = None}

\* Mutant: the wall monitor's slot is taken when it looks empty.
FreeSlots_Any == {s \in Slots : archive[s].name = None /\ archive[s].token = None}

\* Mutant: a slot in which no pairing is pending counts as free.
FreeSlots_NotPairing == {s \in Slots \ {0} : pending[s] = None}

FreeSlots == {s \in Slots \ {0} : archive[s].name = None /\ archive[s].token = None}

First(s, S) == s \in S /\ \A t \in S : s <= t

\* The slot is not what the backup says any more, or another form is making a user in it.
Contends(f, s) ==
  archive[s] # table[s] \/ \E g \in Forms \ {f} : pc[g] \in Making /\ target[g] = s

\* The first free slot for a new user, or the first token there is.
ReadsBackup(f) ==
  /\ Asks(f, "listing")
  /\ \E s \in Slots :
       \/ /\ wants[f] = "user" /\ First(s, FreeSlots) /\ Goes(f, "kind")
          /\ target' = [target EXCEPT ![f] = s] /\ UNCHANGED token
          /\ contested' = contested \cup (IF Contends(f, s) THEN {s} ELSE {})
       \/ /\ wants[f] = "backup" /\ First(s, {t \in Slots : archive[t].token # None})
          /\ Goes(f, "testing") /\ token' = [token EXCEPT ![f] = archive[s].token]
          /\ UNCHANGED <<target, contested>>
  /\ UNCHANGED <<device, code>> /\ SameForm

\* Three updates, of which the second gives the slot its name.
SetsField(f) ==
  /\ \/ Asks(f, "kind") /\ Goes(f, "name") /\ UNCHANGED table
     \/ /\ Asks(f, "name") /\ Goes(f, "enabled")
        /\ table' = [table EXCEPT ![target[f]].name = f]
     \/ Asks(f, "enabled") /\ Goes(f, "code") /\ UNCHANGED table
  /\ UNCHANGED <<pending, archive, token, target, code, contested>> /\ SameForm

GeneratesCode(f) ==
  /\ Asks(f, "code") /\ Goes(f, "page")
  /\ pending' = [pending EXCEPT ![target[f]] = f]
  /\ UNCHANGED <<table, archive, token, target, code, contested>> /\ SameForm

\* Mutant: any row's code is taken.
ReadsPage_AnyRow(f) ==
  /\ Asks(f, "page") /\ Goes(f, "redeem")
  /\ \E s \in Slots : pending[s] # None /\ code' = [code EXCEPT ![f] = pending[s]]
  /\ UNCHANGED <<device, token, target, contested>> /\ SameForm

\* The code is read from the slot's row of the users page.
ReadsPage(f) ==
  /\ Asks(f, "page") /\ pending[target[f]] # None /\ Goes(f, "redeem")
  /\ code' = [code EXCEPT ![f] = pending[target[f]]]
  /\ UNCHANGED <<device, token, target, contested>> /\ SameForm

\* The device activates the slot the code waits in; its answer may be lost.
Redeems(f) ==
  /\ Asks(f, "redeem")
  /\ \E s \in Slots :
       /\ pending[s] = code[f]
       /\ table' = [table EXCEPT ![s].token = f] /\ pending' = [pending EXCEPT ![s] = None]
  /\ \/ Goes(f, "testing") /\ token' = [token EXCEPT ![f] = f]
     \/ Goes(f, "failed") /\ UNCHANGED token
  /\ UNCHANGED <<archive, target, code, contested>> /\ SameForm

ShownAgain(f) == Goes(f, IF kind[f] = "dhcp" THEN "confirm" ELSE "failed")

\* A request is refused or lost, a host is not the device's any more, there is no free
\* slot, no token or no code: the form is shown again (here another form, except that a
\* discovery keeps the host it has found), the steps taken stay.
Fails(f) ==
  /\ pc[f] \in Requests /\ ShownAgain(f)
  /\ UNCHANGED <<device, token, target, code, contested>> /\ SameForm
-----------------------------------------------------------------------------
(* The entry *)

\* connect and authenticate.
Tests(f) ==
  /\ Asks(f, "testing") /\ Accepted(token[f])
  /\ Goes(f, "saving")
  /\ UNCHANGED <<device, token, target, code, contested>> /\ SameForm

Stores(i, e) == entries' = [entries EXCEPT ![i] = e]
Made(f) == [host |-> host[f], token |-> token[f]]

\* The unique id of an entry is its host.
SavesUser(f, end) ==
  /\ kind[f] = "user"
  /\ \/ end = "done" /\ entries[host[f]] = None /\ Stores(host[f], Made(f))
     \/ end = "aborted" /\ entries[host[f]] # None /\ UNCHANGED entries

\* The hardware address, if the entry was discovered.
SavesDhcp(f, end) == end = "done" /\ kind[f] = "dhcp" /\ Stores(Mac, Made(f))

\* Mutant: the host the form has read is written back with the token.
SavesReauth_Host(f, end) ==
  end = "done" /\ kind[f] = "reauth" /\ Stores(subject[f], Made(f))

\* The token only.
SavesReauth(f, end) ==
  /\ end = "done" /\ kind[f] = "reauth"
  /\ entries' = [entries EXCEPT ![subject[f]].token = token[f]]

\* All that was entered, if that leaves the unique id as it is.
SavesReconfigure(f, end) ==
  /\ kind[f] = "reconfigure"
  /\ \/ end = "done" /\ subject[f] = host[f] /\ Stores(subject[f], Made(f))
     \/ end = "aborted" /\ subject[f] # host[f] /\ UNCHANGED entries

Saves(f) ==
  /\ pc[f] = "saving"
  /\ \E end \in {"done", "aborted"} :
       /\ Goes(f, end)
       /\ \/ SavesUser(f, end) \/ SavesDhcp(f, end)
          \/ SavesReauth(f, end) \/ SavesReconfigure(f, end)
  /\ UNCHANGED <<device, address, form, moves, resets, contested>>
-----------------------------------------------------------------------------
(* The device *)

\* The router gives it another address.
DeviceMoves ==
  /\ moves < MaxMoves /\ moves' = moves + 1 /\ address' \in Hosts \ {address}
  /\ UNCHANGED <<device, entries, pc, form, resets, contested>>

\* Somebody resets a user's activation on the web page.
UserReset ==
  /\ resets < MaxResets /\ resets' = resets + 1
  /\ \E s \in Slots : table[s].token # None /\ table' = [table EXCEPT ![s].token = None]
  /\ UNCHANGED <<pending, archive, address, entries, pc, form, moves, contested>>
-----------------------------------------------------------------------------
FormStep(f) ==
  \/ MakesBackup(f) \/ ReadsBackup(f) \/ SetsField(f) \/ GeneratesCode(f) \/ ReadsPage(f)
  \/ Redeems(f) \/ Fails(f) \/ Tests(f) \/ Saves(f)

Submissions(f) ==
  UserForm(f) \/ DhcpDiscovers(f) \/ DhcpConfirm(f) \/ ReauthForm(f) \/ ReconfigureForm(f)

Next ==
  \/ \E f \in Forms : Submissions(f) \/ FormStep(f)
  \/ DeviceMoves \/ UserReset

Spec == Init /\ [][Next]_vars
-----------------------------------------------------------------------------
(* Properties *)

\* "the wall monitor's slot is never touched" (README.md), however empty it looks, however
\* old the backup is and whoever else makes a user at the time: it gets no name, no code
\* and no token.
MonitorUntouched ==
  [][pending'[0] = None /\ table'[0].name = table[0].name
     /\ table'[0].token \in {table[0].token, None}]_vars

\* No user of the device loses its name or its activation to another one, although the
\* forms that failed have left half-made users and unredeemed codes behind and others are
\* on their way in slots beside it; except in a slot that a form picked from a backup that
\* was out of date in it, or while another form was making a user there.
UsersKept ==
  [][\A s \in Slots \ contested :
       /\ table[s].name # None => table'[s].name = table[s].name
       /\ table[s].token # None => table'[s].token \in {table[s].token, None}]_vars

\* An activation is that of the user the slot was named for, whatever codes wait in the
\* other rows of the page; with the same exception.
OwnActivation ==
  \A s \in Slots \ contested : table[s].token \in Forms => table[s].name = table[s].token

\* An entry's token stays one that the device accepts, whatever other forms do, until
\* somebody resets an activation or a slot is taken in one of those two ways.
TokensLive ==
  resets = 0 /\ contested = {}
    => \A i \in Ids : entries[i] # None => Accepted(entries[i].token)

\* The host that a discovery brought up to date is not set back by a form that has read
\* the old one.
HostFollows ==
  [][\A i \in Ids : entries[i] # None /\ entries'[i].host # entries[i].host
                      => entries'[i].host = address]_vars
-----------------------------------------------------------------------------
(* What the documentation says and the code does not keep *)

\* "Reconfigure flow - change host, port, or token without removing the integration"
\* (CHANGELOG.md): a form for the entry's own device is not refused.
ReconfigureApplies == \A f \in Forms : kind[f] = "reconfigure" => pc[f] # "aborted"

\* "unique-config-entry | PASS" (memory/comelit_man_audit.md): the device has one entry.
OneEntry == Cardinality({i \in Ids : entries[i] # None}) <= 1

\* "an already-activated user has no pending pairing file, so a probe would report its slot
\* as free and overwrite a real user" (provisioning.py): the backup does not.
ActivatedKept ==
  [][\A s \in Slots : table[s].token # None => table'[s].name = table[s].name]_vars
=============================================================================
