-------------------------- MODULE DeviceSetupProofs --------------------------
(***************************************************************************)
(* What holds of DeviceSetup for any number of forms, phones, slots and    *)
(* addresses, however forms overlap and however old a backup is: the wall  *)
(* monitor's slot stays untouched, and no form takes a slot or a token     *)
(* from anybody, except in a slot that was contested when it was picked.   *)
(***************************************************************************)
EXTENDS DeviceSetup, TLAPS

Named == {"enabled", "code", "page", "redeem"}

\* Whoever tries or saves a token has one; the entry a form is about exists.
FormSound ==
  \A f \in Forms :
    /\ pc[f] \in {"testing", "saving"} => token[f] # None
    /\ kind[f] \in {"reauth", "reconfigure"} => entries[subject[f]] # None

\* The slot of a new user was free, hence not the monitor's, and no code waits in that one.
TargetChosen ==
  /\ pending[0] = None
  /\ \A f \in Forms : /\ pc[f] \in Making => target[f] # 0
                      /\ pc[f] = "redeem" => code[f] \in Forms

\* Only a user form makes a user.
OnlyUserForms ==
  \A f \in Forms : /\ pc[f] \in Making => kind[f] = "user"
                   /\ pc[f] \in {"login", "listing"} /\ wants[f] = "user" => kind[f] = "user"

\* A form that has had a code generated: its slot does not change any more.
Coded(f) == kind[f] = "user" /\ pc[f] \in {"page", "redeem", "testing", "saving"} \cup Ended

\* A code waits in the slot its form chose, and is read from the reader's own slot; a form
\* has a token only once it has redeemed a code.
CodesPlaced ==
  /\ \A s \in Slots : pending[s] # None => Coded(pending[s]) /\ target[pending[s]] = s
  /\ \A f \in Forms :
       /\ pc[f] = "redeem" => code[f] # None /\ Coded(code[f]) /\ target[code[f]] = target[f]
       /\ \A s \in Slots :
            table[s].token = f => kind[f] = "user" /\ pc[f] \in {"testing", "saving"} \cup Ended

\* A code and a token are those of the user the slot is named for.
SlotsOwned ==
  \A s \in Slots \ contested :
    /\ pending[s] # None => table[s].name = pending[s]
    /\ table[s].token # None => table[s].name = table[s].token

\* A form is alone at its slot, which is free until the form names it.
SlotKnown ==
  \A f \in Forms :
    pc[f] \in Making /\ target[f] \notin contested =>
      /\ \A g \in Forms \ {f} : pc[g] \in Making => target[g] # target[f]
      /\ pc[f] \in {"kind", "name"} => table[target[f]].name = None
      /\ pc[f] \in Named => table[target[f]].name = f
      /\ pc[f] = "redeem" => code[f] = f

\* A token that was tried is accepted.
TokensTried ==
  resets = 0 /\ contested = {} =>
    /\ \A f \in Forms : pc[f] = "saving" => Accepted(token[f])
    /\ \A i \in Ids : entries[i] # None => Accepted(entries[i].token)

SetupInv == OnlyUserForms /\ CodesPlaced /\ SlotsOwned /\ SlotKnown /\ TokensTried
Steps(f) == Submissions(f) \/ FormStep(f)
-----------------------------------------------------------------------------
(* Typing *)

LEMMA InitTyped == Init => TypeOK
<1> SUFFICES ASSUME Init PROVE TypeOK OBVIOUS
<1>2. table \in [Slots -> Row]
  <2>1. PICK used \in [Slots -> Phones \cup {None}] :
          table = [s \in Slots |-> [name |-> used[s], token |-> used[s]]]
    BY DEF Init
  <2> QED BY <2>1 DEF Row, Users
<1>3. 0 \in Slots /\ Mac \in Ids /\ 0 \in 0 .. MaxMoves /\ 0 \in 0 .. MaxResets
  BY ConstantsAssumption DEF Slots, Ids
<1> QED
  BY <1>2, <1>3 DEF Init, TypeOK, Places

\* The places a form goes to, and its user, are in the types.
LEMMA Members ==
  /\ {"login", "listing", "kind", "name", "enabled", "code", "page", "redeem", "testing",
      "failed", "aborted", "done", "idle", "confirm", "saving"} \subseteq Places
  /\ Phones \subseteq Users /\ Forms \subseteq Users /\ Hosts \subseteq Ids /\ Mac \in Ids
  /\ \A r \in Row : r.name \in Users \cup {None} /\ r.token \in Users \cup {None}
  /\ \A r \in Row, u \in Users \cup {None} :
       [r EXCEPT !.name = u] \in Row /\ [r EXCEPT !.token = u] \in Row
  /\ \A e \in Entry : e.host \in Hosts /\ e.token \in Users
  /\ \A e \in Entry, h \in Hosts, u \in Users :
       [e EXCEPT !.host = h] \in Entry /\ [e EXCEPT !.token = u] \in Entry
BY DEF Places, Requests, Ended, Users, Ids, Row, Entry

LEMMA SubmitsTyped ==
  ASSUME TypeOK, NEW f \in Forms, NEW w \in {"given", "backup", "user"}, Submits(f, w)
  PROVE  /\ wants' \in [Forms -> {"given", "backup", "user"}]
         /\ pc' \in [Forms -> Places] /\ token' \in [Forms -> Users \cup {None}]
         /\ UNCHANGED <<device, address, target, code, moves, resets, contested>>
<1>1. CASE w = "given"
  <2>1. PICK p \in Phones : token' = [token EXCEPT ![f] = p]
    BY <1>1 DEF Submits
  <2> QED BY <1>1, <2>1, Members DEF TypeOK, Submits
<1>2. CASE w # "given"
  BY <1>2, Members DEF TypeOK, Submits
<1> QED BY <1>1, <1>2

LEMMA FormTyped ==
  ASSUME TypeOK, FormSound, NEW f \in Forms, Steps(f)
  PROVE  TypeOK'
<1>1. CASE UserForm(f)
  BY <1>1, SubmitsTyped DEF TypeOK, UserForm, device
<1>2. CASE DhcpDiscovers(f)
  <2>1. entries' \in [Ids -> Entry \cup {None}]
    <3>1. entries[Mac] # None => [entries[Mac] EXCEPT !.host = address] \in Entry
      BY Members DEF TypeOK
    <3> QED BY <1>2, <3>1, Members DEF TypeOK, DhcpDiscovers
  <2>2. /\ pc' \in [Forms -> Places] /\ host' \in [Forms -> Hosts]
        /\ kind' \in [Forms -> {"user", "dhcp", "reauth", "reconfigure"}]
    BY <1>2, Members DEF TypeOK, DhcpDiscovers
  <2> QED BY <1>2, <2>1, <2>2 DEF TypeOK, DhcpDiscovers, device
<1>3. CASE DhcpConfirm(f)
  BY <1>3, SubmitsTyped DEF TypeOK, DhcpConfirm, device
<1>4. CASE ReauthForm(f)
  <2>1. PICK i \in Ids : /\ entries[i] # None /\ subject' = [subject EXCEPT ![f] = i]
                         /\ host' = [host EXCEPT ![f] = entries[i].host]
    BY <1>4 DEF ReauthForm
  <2>2. entries[i].host \in Hosts
    BY <2>1, Members DEF TypeOK
  <2> QED BY <1>4, <2>1, <2>2, SubmitsTyped DEF TypeOK, ReauthForm, device
<1>5. CASE ReconfigureForm(f)
  <2>1. subject' \in [Forms -> Ids]
    BY <1>5 DEF TypeOK, ReconfigureForm
  <2> QED BY <1>5, <2>1, SubmitsTyped DEF TypeOK, ReconfigureForm, device
<1>6. CASE MakesBackup(f)
  <2>1. pc' \in [Forms -> Places] /\ archive' \in [Slots -> Row]
    BY <1>6, Members DEF TypeOK, MakesBackup, Goes
  <2> QED BY <1>6, <2>1 DEF TypeOK, MakesBackup, SameForm
<1>7. CASE ReadsBackup(f)
  <2>1. PICK s \in Slots :
          \/ Goes(f, "kind") /\ target' = [target EXCEPT ![f] = s] /\ UNCHANGED token
          \/ Goes(f, "testing") /\ token' = [token EXCEPT ![f] = archive[s].token]
             /\ UNCHANGED target
    BY <1>7 DEF ReadsBackup
  <2>5. contested' \subseteq Slots
    BY <1>7 DEF TypeOK, ReadsBackup
  <2>2. archive[s].token \in Users \cup {None}
    BY Members DEF TypeOK
  <2>3. pc' \in [Forms -> Places]
    BY <2>1, Members DEF TypeOK, Goes
  <2>4. target' \in [Forms -> Slots] /\ token' \in [Forms -> Users \cup {None}]
    BY <2>1, <2>2 DEF TypeOK
  <2> QED BY <1>7, <2>3, <2>4, <2>5 DEF TypeOK, ReadsBackup, SameForm, device
<1>8. CASE SetsField(f)
  <2>1. pc' \in [Forms -> Places]
    BY <1>8, Members, ZenonT(40) DEF TypeOK, SetsField, Goes
  <2>2. \A s \in Slots : [table[s] EXCEPT !.name = f] \in Row
    BY Members DEF TypeOK
  <2>3. table' \in [Slots -> Row]
    BY <1>8, <2>2 DEF TypeOK, SetsField
  <2> QED BY <1>8, <2>1, <2>3 DEF TypeOK, SetsField, SameForm
<1>9. CASE GeneratesCode(f)
  <2>1. pc' \in [Forms -> Places] /\ pending' \in [Slots -> Forms \cup {None}]
    BY <1>9, Members DEF TypeOK, GeneratesCode, Goes
  <2> QED BY <1>9, <2>1 DEF TypeOK, GeneratesCode, SameForm
<1>10. CASE ReadsPage(f)
  <2>1. pc' \in [Forms -> Places] /\ code' \in [Forms -> Forms \cup {None}]
    BY <1>10, Members DEF TypeOK, ReadsPage, Goes
  <2> QED BY <1>10, <2>1 DEF TypeOK, ReadsPage, SameForm, device
<1>11. CASE Redeems(f)
  <2>1. PICK s \in Slots : /\ table' = [table EXCEPT ![s].token = f]
                           /\ pending' = [pending EXCEPT ![s] = None]
    BY <1>11 DEF Redeems
  <2>2. f \in Users \cup {None} /\ [table[s] EXCEPT !.token = f] \in Row
    BY Members DEF TypeOK
  <2>3. pc' \in [Forms -> Places]
    BY <1>11, Members, ZenonT(40) DEF TypeOK, Redeems, Goes
  <2>4. token' \in [Forms -> Users \cup {None}]
    BY <1>11, <2>2 DEF TypeOK, Redeems
  <2>5. table' \in [Slots -> Row]
    BY <2>1, <2>2 DEF TypeOK
  <2> QED BY <1>11, <2>1, <2>3, <2>4, <2>5 DEF TypeOK, Redeems, SameForm
<1>12. CASE Fails(f)
  <2>1. pc' \in [Forms -> Places]
    BY <1>12, Members DEF TypeOK, Fails, ShownAgain, Goes
  <2> QED BY <1>12, <2>1 DEF TypeOK, Fails, SameForm, device
<1>13. CASE Tests(f)
  <2>1. pc' \in [Forms -> Places]
    BY <1>13, Members DEF TypeOK, Tests, Goes
  <2> QED BY <1>13, <2>1 DEF TypeOK, Tests, SameForm, device
<1>14. CASE Saves(f)
  <2>1. pc[f] = "saving" /\ token[f] \in Users
    BY <1>14 DEF TypeOK, FormSound, Saves
  <2>2. [host |-> host[f], token |-> token[f]] \in Entry
    BY <2>1 DEF TypeOK, Entry
  <2>3. kind[f] = "reauth" => [entries[subject[f]] EXCEPT !.token = token[f]] \in Entry
    BY <2>1, Members DEF TypeOK, FormSound
  <2>4. host[f] \in Ids /\ Mac \in Ids /\ subject[f] \in Ids
    BY Members DEF TypeOK
  <2>5. entries' \in [Ids -> Entry \cup {None}]
    <3>1. \/ \E i \in Ids :
                entries' = [entries EXCEPT ![i] = [host |-> host[f], token |-> token[f]]]
          \/ kind[f] = "reauth" /\ entries' = [entries EXCEPT ![subject[f]].token = token[f]]
          \/ entries' = entries
      BY <1>14, <2>4
      DEF Saves, SavesUser, SavesDhcp, SavesReauth, SavesReconfigure, Stores, Made
    <3> QED BY <2>2, <2>3, <2>4, <3>1 DEF TypeOK
  <2>6. pc' \in [Forms -> Places]
    BY <1>14, Members DEF TypeOK, Saves, Goes
  <2> QED BY <1>14, <2>5, <2>6 DEF TypeOK, Saves, form, device
<1> QED
  BY <1>1, <1>2, <1>3, <1>4, <1>5, <1>6, <1>7, <1>8, <1>9, <1>10, <1>11, <1>12, <1>13, <1>14
  DEF Steps, Submissions, FormStep

LEMMA FormStaysSound ==
  ASSUME TypeOK, FormSound, NEW f \in Forms, Steps(f)
  PROVE  FormSound'
<1> SUFFICES ASSUME NEW g \in Forms
             PROVE  /\ pc'[g] \in {"testing", "saving"} => token'[g] # None
                    /\ kind'[g] \in {"reauth", "reconfigure"} => entries'[subject'[g]] # None
  BY DEF FormSound
<1>0. \A i \in Ids : entries[i] # None => entries'[i] # None
  <2>1. None \notin Entry
    BY ConstantsAssumption DEF Entry, Users
  <2>2. CASE UNCHANGED entries
    BY <2>2
  <2>3. CASE DhcpDiscovers(f)
    <3>1. entries[Mac] # None => [entries[Mac] EXCEPT !.host = address] \in Entry
      BY Members DEF TypeOK
    <3>2. \/ entries' = entries
          \/ entries[Mac] # None /\ entries' = [entries EXCEPT ![Mac].host = address]
      BY <2>3 DEF DhcpDiscovers
    <3> QED BY <2>1, <3>1, <3>2, Members DEF TypeOK
  <2>4. CASE Saves(f)
    <3>1. [host |-> host[f], token |-> token[f]] \in Entry
      BY <2>4 DEF TypeOK, FormSound, Saves, Entry
    <3>2. kind[f] = "reauth" => [entries[subject[f]] EXCEPT !.token = token[f]] \in Entry
      BY <2>4, Members DEF TypeOK, FormSound, Saves
    <3>3. \/ \E i \in Ids :
                entries' = [entries EXCEPT ![i] = [host |-> host[f], token |-> token[f]]]
          \/ kind[f] = "reauth" /\ entries' = [entries EXCEPT ![subject[f]].token = token[f]]
          \/ entries' = entries
      BY <2>4, Members
      DEF TypeOK, Saves, SavesUser, SavesDhcp, SavesReauth, SavesReconfigure, Stores, Made
    <3> QED BY <2>1, <3>1, <3>2, <3>3 DEF TypeOK
  <2> QED
    BY <2>2, <2>3, <2>4
    DEF Steps, Submissions, FormStep, UserForm, DhcpConfirm, ReauthForm, ReconfigureForm,
        MakesBackup, ReadsBackup, SetsField, GeneratesCode, ReadsPage, Redeems, Fails, Tests,
        SameForm
<1> USE ConstantsAssumption DEF TypeOK, FormSound
<1>1. CASE UserForm(f)
  BY <1>1 DEF UserForm, Submits
<1>2. CASE DhcpDiscovers(f)
  BY <1>2, <1>0 DEF DhcpDiscovers
<1>3. CASE DhcpConfirm(f)
  BY <1>3 DEF DhcpConfirm, Submits
<1>4. CASE ReauthForm(f)
  BY <1>4 DEF ReauthForm, Submits
<1>5. CASE ReconfigureForm(f)
  BY <1>5 DEF ReconfigureForm, Submits
<1>6. CASE MakesBackup(f)
  BY <1>6 DEF MakesBackup, Goes, SameForm
<1>7. CASE ReadsBackup(f)
  BY <1>7 DEF ReadsBackup, First, Goes, SameForm
<1>8. CASE SetsField(f)
  BY <1>8 DEF SetsField, Goes, SameForm
<1>9. CASE GeneratesCode(f)
  BY <1>9 DEF GeneratesCode, Goes, SameForm
<1>10. CASE ReadsPage(f)
  BY <1>10 DEF ReadsPage, Goes, SameForm
<1>11. CASE Redeems(f)
  BY <1>11 DEF Redeems, Goes, SameForm
<1>12. CASE Fails(f)
  BY <1>12 DEF Fails, ShownAgain, Goes, SameForm
<1>13. CASE Tests(f)
  BY <1>13 DEF Tests, Asks, Goes, SameForm
<1>14. CASE Saves(f)
  BY <1>14, <1>0 DEF Saves, Goes, form
<1> QED
  BY <1>1, <1>2, <1>3, <1>4, <1>5, <1>6, <1>7, <1>8, <1>9, <1>10, <1>11, <1>12, <1>13, <1>14
  DEF Steps, Submissions, FormStep

LEMMA StepTyped == TypeOK /\ FormSound /\ [Next]_vars => (TypeOK /\ FormSound)'
<1> SUFFICES ASSUME TypeOK, FormSound, [Next]_vars PROVE (TypeOK /\ FormSound)' OBVIOUS
<1>1. CASE \E f \in Forms : Steps(f)
  BY <1>1, FormTyped, FormStaysSound
<1>2. CASE DeviceMoves
  BY <1>2, ConstantsAssumption DEF TypeOK, FormSound, DeviceMoves, device, form
<1>3. CASE UserReset
  BY <1>3, ConstantsAssumption, SMTT(30) DEF TypeOK, FormSound, UserReset, form, Row
<1>4. CASE UNCHANGED vars
  BY <1>4 DEF TypeOK, FormSound, vars, device, form
<1> QED BY <1>1, <1>2, <1>3, <1>4 DEF Next, Steps

\* Every variable keeps its type (TypeOK), for any forms, phones, slots and bounds.
THEOREM TypeCorrect == Spec => []TypeOK
<1>1. Init => FormSound
  BY DEF Init, FormSound
<1> QED BY <1>1, InitTyped, StepTyped, PTL DEF Spec
-----------------------------------------------------------------------------
(* The wall monitor's slot *)

\* A submission, or a request that does not touch the user table.
Aside(f) == Submissions(f) \/ Fails(f) \/ Tests(f) \/ Saves(f)

LEMMA AsideKeeps ==
  ASSUME TypeOK, NEW f \in Forms, Aside(f)
  PROVE  /\ UNCHANGED <<device, target, code>>
         /\ pc'[f] \notin Making \cup {"listing"}
         /\ \A g \in Forms \ {f} : pc'[g] = pc[g] /\ kind'[g] = kind[g] /\ wants'[g] = wants[g]
<1> USE DEF Making
<1>1. CASE Submissions(f)
  BY <1>1 DEF TypeOK, Submissions, UserForm, DhcpDiscovers, DhcpConfirm, ReauthForm,
              ReconfigureForm, Submits
<1>2. CASE Fails(f)
  BY <1>2 DEF TypeOK, Fails, ShownAgain, Goes, SameForm
<1>3. CASE Tests(f)
  BY <1>3 DEF TypeOK, Tests, Goes, SameForm
<1>4. CASE Saves(f)
  BY <1>4 DEF TypeOK, Saves, Goes, form
<1> QED BY <1>1, <1>2, <1>3, <1>4 DEF Aside

LEMMA TargetStays ==
  ASSUME TypeOK, TargetChosen, NEW f \in Forms, Steps(f)
  PROVE  TargetChosen'
<1> USE ConstantsAssumption DEF TypeOK, TargetChosen, Making
<1>0. 0 \in Slots
  BY DEF Slots
<1>1. CASE Aside(f)
  BY <1>1, AsideKeeps DEF device
<1>2. CASE MakesBackup(f)
  BY <1>2 DEF MakesBackup, Goes, SameForm
<1>3. CASE ReadsBackup(f)
  BY <1>3 DEF ReadsBackup, First, FreeSlots, Goes, SameForm, device
<1>4. CASE SetsField(f)
  BY <1>4 DEF SetsField, Asks, Goes, SameForm
<1>5. CASE GeneratesCode(f)
  BY <1>0, <1>5 DEF GeneratesCode, Asks, Goes, SameForm
<1>6. CASE ReadsPage(f)
  BY <1>6 DEF ReadsPage, Asks, Goes, SameForm, device
<1>7. CASE Redeems(f)
  BY <1>0, <1>7 DEF Redeems, Asks, Goes, SameForm
<1> QED
  BY <1>1, <1>2, <1>3, <1>4, <1>5, <1>6, <1>7 DEF Steps, FormStep, Aside

LEMMA TargetStep == TypeOK /\ TargetChosen /\ [Next]_vars => TargetChosen'
<1> SUFFICES ASSUME TypeOK, TargetChosen, [Next]_vars PROVE TargetChosen' OBVIOUS
<1>1. CASE \E f \in Forms : Steps(f)
  BY <1>1, TargetStays
<1>2. CASE DeviceMoves \/ UserReset \/ UNCHANGED vars
  BY <1>2 DEF TargetChosen, DeviceMoves, UserReset, vars, device, form
<1> QED BY <1>1, <1>2 DEF Next, Steps

\* What may happen to the monitor's row in a step.
RowUntouched == /\ pending'[0] = None /\ table'[0].name = table[0].name
                /\ table'[0].token \in {table[0].token, None}

LEMMA MonitorStep == TypeOK /\ TargetChosen /\ [Next]_vars => RowUntouched
<1> SUFFICES ASSUME TypeOK, TargetChosen, [Next]_vars PROVE RowUntouched OBVIOUS
<1>0. 0 \in Slots /\ pending'[0] = None
  BY TargetStep, ConstantsAssumption DEF Slots, TargetChosen
<1> USE <1>0 DEF RowUntouched
<1>1. CASE UNCHANGED table
  BY <1>1
<1>2. ASSUME NEW f \in Forms, SetsField(f) PROVE RowUntouched
  <2>1. \/ table' = table
        \/ pc[f] = "name" /\ table' = [table EXCEPT ![target[f]].name = f]
    BY <1>2 DEF SetsField, Asks
  <2>2. pc[f] = "name" => target[f] # 0
    BY DEF TargetChosen, Making
  <2> QED BY <2>1, <2>2 DEF TypeOK
<1>3. ASSUME NEW f \in Forms, Redeems(f) PROVE RowUntouched
  <2>1. PICK s \in Slots : pending[s] = code[f] /\ table' = [table EXCEPT ![s].token = f]
    BY <1>3 DEF Redeems
  <2>2. s # 0
    BY <1>3, <2>1, ConstantsAssumption DEF TargetChosen, Redeems, Asks
  <2> QED BY <2>1, <2>2 DEF TypeOK
<1>4. CASE UserReset
  <2>1. PICK s \in Slots : table' = [table EXCEPT ![s].token = None]
    BY <1>4 DEF UserReset
  <2>2. table[0] \in Row /\ [table[0] EXCEPT !.token = None].name = table[0].name
        /\ [table[0] EXCEPT !.token = None].token = None
    BY DEF TypeOK, Row
  <2> QED BY <2>1, <2>2 DEF TypeOK
<1>5. CASE DeviceMoves \/ UNCHANGED vars
  BY <1>1, <1>5 DEF DeviceMoves, vars, device
<1>6. ASSUME NEW f \in Forms, Steps(f) PROVE UNCHANGED table \/ SetsField(f) \/ Redeems(f)
  <2>1. CASE Aside(f)
    BY <2>1, AsideKeeps DEF device
  <2> QED
    BY <1>6, <2>1 DEF Steps, FormStep, Aside, MakesBackup, ReadsBackup, GeneratesCode,
                      ReadsPage, device
<1> QED BY <1>1, <1>2, <1>3, <1>4, <1>5, <1>6 DEF Next, Steps

\* "the wall monitor's slot is never touched" (README.md): no form, however the forms
\* overlap and however old the backup is, gives it a name, a code or a token.
THEOREM MonitorSafe == Spec => MonitorUntouched
<1>1. Init => TargetChosen /\ FormSound
  BY ConstantsAssumption DEF Init, TargetChosen, FormSound, Making, Slots
<1>2. TypeOK /\ FormSound /\ TargetChosen /\ [Next]_vars =>
        (TypeOK /\ FormSound /\ TargetChosen)'
  BY StepTyped, TargetStep
<1>3. TypeOK /\ TargetChosen /\ [Next]_vars => [RowUntouched]_vars
  BY MonitorStep
<1> QED BY <1>1, <1>2, <1>3, InitTyped, PTL DEF Spec, MonitorUntouched, RowUntouched
-----------------------------------------------------------------------------
(* Slots and tokens *)

\* A step of a form leaves the others as they are; contested slots only get more, and
\* those only when a form reads a backup.
LEMMA OthersStay ==
  ASSUME TypeOK, NEW f \in Forms, Steps(f)
  PROVE  /\ \A g \in Forms \ {f} :
              /\ pc'[g] = pc[g] /\ kind'[g] = kind[g] /\ wants'[g] = wants[g]
              /\ token'[g] = token[g] /\ target'[g] = target[g] /\ code'[g] = code[g]
         /\ contested \subseteq contested' /\ (~ReadsBackup(f) => UNCHANGED contested)
         /\ resets' = resets
<1> USE DEF TypeOK
<1>1. CASE UserForm(f) \/ DhcpDiscovers(f) \/ DhcpConfirm(f)
  BY <1>1 DEF UserForm, DhcpDiscovers, DhcpConfirm, Submits
<1>2. CASE ReauthForm(f) \/ ReconfigureForm(f)
  BY <1>2 DEF ReauthForm, ReconfigureForm, Submits
<1>3. CASE MakesBackup(f) \/ ReadsBackup(f)
  BY <1>3 DEF MakesBackup, ReadsBackup, Goes, SameForm
<1>4. CASE SetsField(f) \/ GeneratesCode(f) \/ ReadsPage(f)
  BY <1>4 DEF SetsField, GeneratesCode, ReadsPage, Goes, SameForm
<1>5. CASE Redeems(f) \/ Fails(f) \/ Tests(f) \/ Saves(f)
  BY <1>5 DEF Redeems, Fails, ShownAgain, Tests, Saves, Goes, SameForm, form
<1> QED
  BY <1>1, <1>2, <1>3, <1>4, <1>5 DEF Steps, Submissions, FormStep

LEMMA FormWorks ==
  ASSUME TypeOK, NEW f \in Forms, FormStep(f)
  PROVE  pc[f] \in Requests \cup {"saving"} /\ UNCHANGED <<kind, wants>>
BY DEF TypeOK, Requests, FormStep, MakesBackup, ReadsBackup, SetsField, GeneratesCode,
       ReadsPage, Redeems, Fails, Tests, Saves, Asks, SameForm, form

LEMMA OnlyUserStep ==
  ASSUME TypeOK, OnlyUserForms, NEW f \in Forms, Steps(f)
  PROVE  OnlyUserForms'
<1>1. CASE Submissions(f)
  BY <1>1, OthersStay
  DEF OnlyUserForms, TypeOK, Making, Submissions, UserForm, DhcpDiscovers, DhcpConfirm, ReauthForm,
      ReconfigureForm, Submits
<1>2. CASE FormStep(f)
  <2>1. pc'[f] \in Making => pc[f] \in Making \/ (pc[f] = "listing" /\ wants[f] = "user")
    BY <1>2 DEF TypeOK, Making, FormStep, MakesBackup, ReadsBackup, SetsField, GeneratesCode,
                ReadsPage, Redeems, Fails, ShownAgain, Tests, Saves, Asks, Goes
  <2>2. pc'[f] \in {"login", "listing"} => pc[f] \in {"login", "listing"}
    BY <1>2 DEF TypeOK, FormStep, MakesBackup, ReadsBackup, SetsField, GeneratesCode,
                ReadsPage, Redeems, Fails, ShownAgain, Tests, Saves, Asks, Goes
  <2>3. kind' = kind /\ wants' = wants
    BY <1>2, FormWorks
  <2>4. \A g \in Forms \ {f} : pc'[g] = pc[g]
    BY OthersStay
  <2> QED BY <2>1, <2>2, <2>3, <2>4 DEF OnlyUserForms, Making
<1> QED BY <1>1, <1>2 DEF Steps

\* Who has had a code generated keeps its slot.
LEMMA CodedStays ==
  ASSUME TypeOK, NEW f \in Forms, Steps(f), NEW g \in Forms, Coded(g)
  PROVE  Coded(g)' /\ target'[g] = target[g]
<1>1. CASE f # g
  BY <1>1, OthersStay DEF Coded
<1>2. CASE f = g /\ Submissions(f)
  BY <1>2 DEF Coded, TypeOK, Ended, Submissions, UserForm, DhcpDiscovers, DhcpConfirm,
              ReauthForm, ReconfigureForm
<1>3. CASE f = g /\ FormStep(f)
  <2>1. ReadsPage(f) \/ Redeems(f) \/ Fails(f) \/ Tests(f) \/ Saves(f)
    BY <1>3 DEF Coded, Ended, FormStep, MakesBackup, ReadsBackup, SetsField, GeneratesCode, Asks
  <2>2. kind' = kind /\ target' = target
    BY <1>3, <2>1, FormWorks DEF ReadsPage, Redeems, Fails, Tests, Saves, form
  <2>3. pc'[f] \in {"page", "redeem", "testing", "saving"} \cup Ended
    BY <1>3, <2>1 DEF Coded, TypeOK, Ended, ReadsPage, Redeems, Fails, ShownAgain, Tests, Saves,
                      Goes
  <2> QED BY <1>3, <2>2, <2>3 DEF Coded
<1> QED BY <1>1, <1>2, <1>3 DEF Steps

\* What a form redeems waits in the slot it chose.
LEMMA RedeemsOwn ==
  ASSUME TypeOK, CodesPlaced, NEW f \in Forms, Redeems(f)
  PROVE  /\ pc[f] = "redeem" /\ pending[target[f]] = code[f] /\ pc'[f] \in {"testing", "failed"}
         /\ table' = [table EXCEPT ![target[f]].token = f]
         /\ pending' = [pending EXCEPT ![target[f]] = None]
<1>1. PICK s \in Slots : /\ pending[s] = code[f] /\ table' = [table EXCEPT ![s].token = f]
                         /\ pending' = [pending EXCEPT ![s] = None]
  BY DEF Redeems
<1>2. pc[f] = "redeem" /\ pc'[f] \in {"testing", "failed"}
  BY DEF TypeOK, Redeems, Asks, Goes
<1>3. s = target[f]
  BY <1>1, <1>2 DEF CodesPlaced
<1> QED BY <1>1, <1>2, <1>3

\* The four requests that change the device change the row of their form only.
LEMMA RowSteps ==
  ASSUME TypeOK, CodesPlaced, NEW f \in Forms, Steps(f)
  PROVE  \/ UNCHANGED <<table, pending>>
         \/ /\ SetsField(f) /\ pc[f] = "name" /\ pc'[f] = "enabled" /\ pending' = pending
            /\ table' = [table EXCEPT ![target[f]].name = f]
         \/ /\ GeneratesCode(f) /\ pc[f] = "code" /\ pc'[f] = "page" /\ table' = table
            /\ pending' = [pending EXCEPT ![target[f]] = f]
         \/ /\ Redeems(f) /\ pc[f] = "redeem"
            /\ table' = [table EXCEPT ![target[f]].token = f]
            /\ pending' = [pending EXCEPT ![target[f]] = None]
<1>1. CASE Aside(f)
  BY <1>1, AsideKeeps DEF device
<1>2. CASE SetsField(f)
  BY <1>2 DEF TypeOK, SetsField, Asks, Goes
<1>3. CASE GeneratesCode(f)
  BY <1>3 DEF TypeOK, GeneratesCode, Asks, Goes
<1>4. CASE Redeems(f)
  BY <1>4, RedeemsOwn
<1> QED
  BY <1>1, <1>2, <1>3, <1>4
  DEF Steps, FormStep, Aside, MakesBackup, ReadsBackup, ReadsPage, device

LEMMA PlacedStep ==
  ASSUME TypeOK, OnlyUserForms, CodesPlaced, NEW f \in Forms, Steps(f)
  PROVE  CodesPlaced'
<1> USE ConstantsAssumption
<1>1. ASSUME NEW s \in Slots, pending'[s] # None
      PROVE  Coded(pending[s])' /\ (target[pending[s]] = s)'
  <2>1. CASE pending'[s] = pending[s]
    <3>1. pending[s] \in Forms
      BY <1>1, <2>1 DEF TypeOK
    <3> QED BY <1>1, <2>1, <3>1, CodedStays DEF CodesPlaced, Coded
  <2>2. CASE pending'[s] # pending[s]
    <3>1. GeneratesCode(f) /\ pending'[s] = f /\ s = target[f] /\ pc[f] = "code" /\ pc'[f] = "page"
      BY <1>1, <2>2, RowSteps DEF TypeOK
    <3>2. kind[f] = "user"
      BY <3>1 DEF OnlyUserForms, Making
    <3>3. kind' = kind /\ target' = target
      BY <3>1 DEF GeneratesCode, SameForm
    <3> QED BY <3>1, <3>2, <3>3 DEF Coded
  <2> QED BY <2>1, <2>2
<1>2. ASSUME NEW g \in Forms, pc'[g] = "redeem"
      PROVE  code'[g] # None /\ Coded(code[g])' /\ (target[code[g]] = target[g])'
  <2>1. CASE ReadsPage(f) /\ g = f
    <3>1. /\ code'[f] = pending[target[f]] /\ pending[target[f]] # None /\ target' = target
      BY <2>1 DEF TypeOK, ReadsPage
    <3>2. pending[target[f]] \in Forms
      BY <3>1 DEF TypeOK
    <3> QED BY <2>1, <3>1, <3>2, CodedStays DEF CodesPlaced, Coded, TypeOK
  <2>2. CASE ~(ReadsPage(f) /\ g = f)
    <3>1. pc[g] = "redeem" /\ code'[g] = code[g] /\ target'[g] = target[g]
      <4>1. CASE g # f
        BY <1>2, <4>1, OthersStay
      <4>2. CASE g = f
        <5>1. ~Aside(f) \/ pc[f] = "redeem"
          BY <1>2, <4>2, AsideKeeps DEF Making
        <5>2. Aside(f) /\ pc[f] = "redeem" => FALSE
          BY <1>2, <4>2, AsideKeeps DEF Making
        <5> QED
          BY <1>2, <2>2, <4>2, <5>1, <5>2
          DEF TypeOK, Steps, FormStep, Aside, MakesBackup, ReadsBackup, SetsField, GeneratesCode,
              Redeems, Goes
      <4> QED BY <4>1, <4>2
    <3>2. code[g] \in Forms
      BY <3>1 DEF CodesPlaced, TypeOK
    <3> QED BY <3>1, <3>2, CodedStays DEF CodesPlaced, Coded
  <2> QED BY <2>1, <2>2
<1>3. ASSUME NEW g \in Forms, NEW s \in Slots, table'[s].token = g
      PROVE  kind'[g] = "user" /\ pc'[g] \in {"testing", "saving"} \cup Ended
  <2>1. CASE table[s].token = g
    <3>1. kind[g] = "user" /\ pc[g] \in {"testing", "saving"} \cup Ended
      BY <2>1 DEF CodesPlaced
    <3>2. Coded(g)' /\ (f = g => pc'[g] \notin Making)
      <4>1. f = g => Submissions(f) \/ Fails(f) \/ Tests(f) \/ Saves(f)
        BY <3>1 DEF Ended, Steps, FormStep, MakesBackup, ReadsBackup, SetsField, GeneratesCode,
                    ReadsPage, Redeems, Asks
      <4> QED BY <3>1, <4>1, CodedStays, AsideKeeps DEF Coded, Aside
    <3> QED BY <3>1, <3>2, OthersStay DEF Coded, Making
  <2>2. CASE table[s].token # g
    <3>1. [table[target[f]] EXCEPT !.name = f].token = table[target[f]].token
      BY DEF TypeOK, Row
    <3>2. [table[target[f]] EXCEPT !.token = f].token = f
      BY DEF TypeOK, Row
    <3>3. s = target[f] /\ table' # table
      BY <1>3, <2>2, RowSteps DEF TypeOK
    <3>4. Redeems(f) /\ table' = [table EXCEPT ![target[f]].token = f]
      BY <1>3, <2>2, <3>1, <3>3, RowSteps DEF TypeOK
    <3>5. g = f
      BY <1>3, <3>2, <3>3, <3>4 DEF TypeOK
    <3>6. pc[f] = "redeem" /\ pc'[f] \in {"testing", "failed"}
      BY <3>4, RedeemsOwn
    <3>7. kind' = kind
      BY <3>4 DEF Redeems, SameForm
    <3>8. kind[f] = "user"
      BY <3>6 DEF OnlyUserForms, Making
    <3> QED BY <3>5, <3>6, <3>7, <3>8 DEF Ended
  <2> QED BY <2>1, <2>2
<1> QED BY <1>1, <1>2, <1>3 DEF CodesPlaced

\* What a step of a form leaves of the user table, where no slot was contested.
TableKept ==
  \A s \in Slots \ contested :
    /\ table[s].name # None => table'[s].name = table[s].name
    /\ table[s].token # None => table'[s].token = table[s].token

\* A form about to redeem its code has no token yet.
LEMMA SlotUnactivated ==
  ASSUME TypeOK, CodesPlaced, SlotsOwned, SlotKnown,
         NEW f \in Forms, pc[f] = "redeem", pending[target[f]] = code[f],
         target[f] \notin contested
  PROVE  /\ code[f] = f /\ table[target[f]].name = f /\ table[target[f]].token = None
<1>1. code[f] = f
  BY DEF SlotKnown, Making
<1>2. table[target[f]].name = f
  BY <1>1, ConstantsAssumption DEF SlotsOwned, TypeOK
<1>3. table[target[f]].token # f
  BY DEF CodesPlaced, TypeOK, Ended
<1> QED BY <1>1, <1>2, <1>3 DEF SlotsOwned, TypeOK

LEMMA TableStep ==
  ASSUME TypeOK, CodesPlaced, SlotsOwned, SlotKnown, NEW f \in Forms, Steps(f)
  PROVE  TableKept
<1>1. CASE UNCHANGED table
  BY <1>1 DEF TableKept
<1>2. CASE pc[f] = "name" /\ table' = [table EXCEPT ![target[f]].name = f]
  <2>1. target[f] \notin contested => table[target[f]].name = None
    BY <1>2 DEF SlotKnown, Making
  <2>2. /\ table[target[f]] \in Row
        /\ [table[target[f]] EXCEPT !.name = f].token = table[target[f]].token
    BY DEF TypeOK, Row
  <2> QED BY <1>2, <2>1, <2>2 DEF TableKept, TypeOK
<1>3. CASE Redeems(f)
  <2>1. target[f] \notin contested => table[target[f]].token = None
    BY <1>3, RedeemsOwn, SlotUnactivated
  <2>2. table[target[f]] \in Row /\ [table[target[f]] EXCEPT !.token = f].name = table[target[f]].name
    BY DEF TypeOK, Row
  <2>3. table' = [table EXCEPT ![target[f]].token = f]
    BY <1>3, RedeemsOwn
  <2> QED BY <2>1, <2>2, <2>3 DEF TableKept, TypeOK
<1> QED BY <1>1, <1>2, <1>3, RowSteps

LEMMA OwnedStep ==
  ASSUME TypeOK, CodesPlaced, SlotsOwned, SlotKnown, NEW f \in Forms, Steps(f)
  PROVE  SlotsOwned'
<1> SUFFICES ASSUME NEW s \in Slots, s \notin contested'
             PROVE  /\ pending'[s] # None => table'[s].name = pending'[s]
                    /\ table'[s].token # None => table'[s].name = table'[s].token
  BY DEF SlotsOwned
<1>0. s \notin contested
  BY OthersStay
<1>1. CASE pending'[s] = pending[s] /\ table'[s] = table[s]
  BY <1>0, <1>1 DEF SlotsOwned
<1>2. CASE s = target[f] /\ pc[f] = "name" /\ pending' = pending
           /\ table' = [table EXCEPT ![target[f]].name = f]
  <2>1. table[s].name = None
    BY <1>0, <1>2 DEF SlotKnown, Making
  <2>2. pending[s] = None /\ table[s].token = None
    BY <1>0, <2>1, ConstantsAssumption DEF SlotsOwned, TypeOK
  <2>3. [table[s] EXCEPT !.name = f].token = table[s].token
    BY DEF TypeOK, Row
  <2> QED BY <1>2, <2>2, <2>3 DEF TypeOK
<1>3. CASE s = target[f] /\ pc[f] = "code" /\ table' = table
           /\ pending' = [pending EXCEPT ![target[f]] = f]
  <2>1. table[s].name = f
    BY <1>0, <1>3 DEF SlotKnown, Making, Named
  <2> QED BY <1>0, <1>3, <2>1 DEF SlotsOwned, TypeOK
<1>4. CASE s = target[f] /\ Redeems(f)
  <2>1. table[s].name = f
    BY <1>0, <1>4, RedeemsOwn, SlotUnactivated
  <2>2. /\ [table[s] EXCEPT !.token = f].name = table[s].name
        /\ [table[s] EXCEPT !.token = f].token = f
    BY DEF TypeOK, Row
  <2>3. pending'[s] = None /\ table'[s] = [table[s] EXCEPT !.token = f]
    BY <1>4, RedeemsOwn DEF TypeOK
  <2> QED BY <2>1, <2>2, <2>3
<1> QED BY <1>1, <1>2, <1>3, <1>4, RowSteps DEF TypeOK

\* Nobody else comes to the slot a form is at without contesting it.
LEMMA AloneStep ==
  ASSUME TypeOK, SlotKnown, NEW f \in Forms, Steps(f), NEW g \in Forms,
         pc'[g] \in Making, target'[g] \notin contested', NEW h \in Forms \ {g}, pc'[h] \in Making
  PROVE  target'[h] # target'[g]
<1>1. ASSUME NEW k \in Forms, pc'[k] \in Making
      PROVE  \/ pc[k] \in Making /\ target'[k] = target[k]
             \/ k = f /\ ReadsBackup(f) /\ (Contends(f, target'[f]) => target'[f] \in contested')
  <2>1. CASE k # f
    BY <1>1, <2>1, OthersStay
  <2>2. CASE k = f /\ ReadsBackup(f)
    <3>1. PICK s \in Slots :
             \/ /\ target' = [target EXCEPT ![f] = s]
                /\ contested' = contested \cup (IF Contends(f, s) THEN {s} ELSE {})
             \/ Goes(f, "testing")
      BY <2>2 DEF ReadsBackup
    <3> QED BY <1>1, <2>2, <3>1 DEF TypeOK, Goes, Making
  <2>3. CASE k = f /\ ~ReadsBackup(f)
    <3>1. ~Aside(f)
      BY <1>1, <2>3, AsideKeeps
    <3> QED
      BY <1>1, <2>3, <3>1
      DEF TypeOK, Steps, FormStep, Aside, MakesBackup, SetsField, GeneratesCode, ReadsPage,
          Redeems, Asks, Goes, Making
  <2> QED BY <2>1, <2>2, <2>3
<1>2. target[g] \notin contested \/ g = f
  BY OthersStay
<1>3. CASE pc[g] \in Making /\ target'[g] = target[g] /\ pc[h] \in Making /\ target'[h] = target[h]
  BY <1>3, OthersStay DEF SlotKnown
<1>4. CASE h = f /\ ReadsBackup(f) /\ (Contends(f, target'[f]) => target'[f] \in contested')
  <2>1. g # f /\ pc[g] \in Making /\ target'[g] = target[g]
    BY <1>4, OthersStay
  <2> QED BY <1>4, <2>1 DEF Contends
<1>5. CASE g = f /\ ReadsBackup(f) /\ (Contends(f, target'[f]) => target'[f] \in contested')
  <2>1. h # f /\ pc[h] \in Making /\ target'[h] = target[h]
    BY <1>5, OthersStay
  <2> QED BY <1>5, <2>1 DEF Contends
<1> QED BY <1>1, <1>3, <1>4, <1>5

LEMMA KnownStep ==
  ASSUME TypeOK, CodesPlaced, SlotsOwned, SlotKnown, NEW f \in Forms, Steps(f)
  PROVE  SlotKnown'
<1> SUFFICES ASSUME NEW g \in Forms, pc'[g] \in Making, target'[g] \notin contested'
             PROVE  /\ \A h \in Forms \ {g} : pc'[h] \in Making => target'[h] # target'[g]
                    /\ pc'[g] \in {"kind", "name"} => table'[target'[g]].name = None
                    /\ pc'[g] \in Named => table'[target'[g]].name = g
                    /\ pc'[g] = "redeem" => code'[g] = g
  BY DEF SlotKnown
<1>1. \A h \in Forms \ {g} : pc'[h] \in Making => target'[h] # target'[g]
  BY AloneStep
<1>2. CASE f # g
  <2>1. /\ pc'[g] = pc[g] /\ target'[g] = target[g] /\ code'[g] = code[g]
        /\ target[g] \notin contested /\ target[g] \in Slots
    BY <1>2, OthersStay DEF TypeOK
  <2>2. table'[target[g]].name = table[target[g]].name
    <3>1. pc[f] \in {"name", "redeem"} => target[f] # target[g]
      BY <1>2, <2>1 DEF SlotKnown, Making
    <3> QED BY <2>1, <3>1, RowSteps DEF TypeOK
  <2> QED BY <1>1, <2>1, <2>2 DEF SlotKnown
<1>3. CASE f = g /\ ReadsBackup(f)
  <2>1. PICK s \in Slots :
           \/ /\ First(s, FreeSlots) /\ Goes(f, "kind") /\ target' = [target EXCEPT ![f] = s]
              /\ contested' = contested \cup (IF Contends(f, s) THEN {s} ELSE {})
           \/ Goes(f, "testing")
    BY <1>3 DEF ReadsBackup
  <2>2. /\ First(s, FreeSlots) /\ pc'[f] = "kind" /\ target'[f] = s
        /\ contested' = contested \cup (IF Contends(f, s) THEN {s} ELSE {})
    BY <1>3, <2>1 DEF TypeOK, Goes, Making
  <2>3. archive[s].name = None /\ archive[s] = table[s]
    BY <1>3, <2>2 DEF First, FreeSlots, Contends
  <2>4. table' = table
    BY <1>3 DEF ReadsBackup, device
  <2> QED BY <1>1, <1>3, <2>2, <2>3, <2>4 DEF Named
<1>4. CASE f = g /\ ~ReadsBackup(f)
  <2>1. SetsField(f) \/ GeneratesCode(f) \/ ReadsPage(f)
    <3>1. ~Aside(f)
      BY <1>4, AsideKeeps
    <3> QED
      BY <1>4, <3>1 DEF TypeOK, Steps, FormStep, Aside, MakesBackup, Redeems, Goes, Making
  <2>2. target' = target /\ pc[f] \in Making /\ target[f] \notin contested
    BY <1>4, <2>1, OthersStay DEF SetsField, GeneratesCode, ReadsPage, Asks, Making
  <2>3. /\ pc[f] \in {"kind", "name"} => table[target[f]].name = None
        /\ pc[f] \in Named => table[target[f]].name = f
        /\ pc[f] = "redeem" => code[f] = f
    BY <2>2 DEF SlotKnown
  <2>4. CASE SetsField(f) /\ pc[f] = "name"
    <3>1. pc'[f] = "enabled" /\ table' = [table EXCEPT ![target[f]].name = f]
      BY <2>4 DEF TypeOK, SetsField, Asks, Goes
    <3>2. table'[target[f]].name = f
      BY <3>1 DEF TypeOK, Row
    <3> QED BY <1>1, <1>4, <2>2, <3>1, <3>2
  <2>5. CASE SetsField(f) /\ pc[f] # "name"
    BY <1>1, <1>4, <2>2, <2>3, <2>5 DEF TypeOK, SetsField, Asks, Goes, Named
  <2>6. CASE GeneratesCode(f)
    BY <1>1, <1>4, <2>2, <2>3, <2>6 DEF TypeOK, GeneratesCode, Asks, Goes, Named
  <2>7. CASE ReadsPage(f)
    <3>1. /\ pc[f] = "page" /\ pc'[f] = "redeem" /\ code'[f] = pending[target[f]]
          /\ pending[target[f]] # None /\ table' = table
      BY <2>7 DEF TypeOK, ReadsPage, Asks, Goes, device
    <3>2. table[target[f]].name = pending[target[f]]
      BY <2>2, <3>1 DEF SlotsOwned, TypeOK
    <3> QED BY <1>1, <1>4, <2>2, <2>3, <3>1, <3>2 DEF Named
  <2> QED BY <2>1, <2>4, <2>5, <2>6, <2>7
<1> QED BY <1>2, <1>3, <1>4

LEMMA TriedStep ==
  ASSUME TypeOK, FormSound, CodesPlaced, SlotsOwned, SlotKnown, TokensTried,
         NEW f \in Forms, Steps(f)
  PROVE  TokensTried'
<1> SUFFICES ASSUME resets = 0, contested = {}
             PROVE  /\ \A g \in Forms : pc'[g] = "saving" => Accepted(token[g])'
                    /\ \A i \in Ids : entries'[i] # None => Accepted(entries[i].token)'
  BY OthersStay DEF TokensTried
<1>1. ASSUME NEW t, t # None, Accepted(t) PROVE \E s \in Slots : table'[s].token = t
  <2>1. PICK s \in Slots : table[s].token = t
    BY <1>1 DEF Accepted
  <2>2. TableKept
    BY TableStep
  <2> QED BY <1>1, <2>1, <2>2 DEF TableKept
<1>2. ASSUME NEW g \in Forms, pc'[g] = "saving"
      PROVE  token'[g] = token[g] /\ token[g] # None /\ Accepted(token[g])
  <2>1. CASE f = g
    <3>1. ~Submissions(f)
      BY <1>2, <2>1 DEF TypeOK, Submissions, UserForm, DhcpDiscovers, DhcpConfirm, ReauthForm,
                        ReconfigureForm, Submits
    <3>2. Tests(f)
      BY <1>2, <2>1, <3>1
      DEF TypeOK, Steps, FormStep, MakesBackup, ReadsBackup, SetsField, GeneratesCode, ReadsPage,
          Redeems, Fails, ShownAgain, Saves, Goes
    <3> QED BY <2>1, <3>2 DEF FormSound, Tests, Asks
  <2>2. CASE f # g
    <3>1. pc'[g] = pc[g] /\ token'[g] = token[g]
      BY <2>2, OthersStay
    <3> QED BY <1>2, <3>1 DEF FormSound, TokensTried
  <2> QED BY <2>1, <2>2
<1>3. ASSUME NEW i \in Ids, entries'[i] # None
      PROVE  entries'[i].token # None /\ Accepted(entries'[i].token)
  <2>1. entries'[i].token # None
    BY <1>3, FormTyped, ConstantsAssumption DEF TypeOK, Entry, Users
  <2>2. \/ entries[i] # None /\ entries'[i].token = entries[i].token
        \/ Saves(f) /\ entries'[i].token = token[f]
    <3>1. CASE UNCHANGED entries
      BY <1>3, <3>1
    <3>2. CASE DhcpDiscovers(f)
      <4>1. \/ entries' = entries
            \/ entries[Mac] # None /\ entries' = [entries EXCEPT ![Mac].host = address]
        BY <3>2 DEF DhcpDiscovers
      <4>2. entries[Mac] # None => [entries[Mac] EXCEPT !.host = address].token = entries[Mac].token
        BY Members DEF TypeOK, Entry
      <4> QED BY <1>3, <4>1, <4>2, Members DEF TypeOK
    <3>3. CASE Saves(f)
      <4>1. \/ \E j \in Ids :
                  entries' = [entries EXCEPT ![j] = [host |-> host[f], token |-> token[f]]]
            \/ kind[f] = "reauth" /\ entries' = [entries EXCEPT ![subject[f]].token = token[f]]
            \/ entries' = entries
        BY <3>3, Members
        DEF TypeOK, Saves, SavesUser, SavesDhcp, SavesReauth, SavesReconfigure, Stores, Made
      <4>2. kind[f] = "reauth" => [entries[subject[f]] EXCEPT !.token = token[f]].token = token[f]
        BY Members DEF TypeOK, FormSound, Entry
      <4>3. CASE entries' = entries
        BY <1>3, <4>3
      <4>4. CASE \E j \in Ids :
                   entries' = [entries EXCEPT ![j] = [host |-> host[f], token |-> token[f]]]
        BY <1>3, <3>3, <4>4 DEF TypeOK
      <4>5. CASE kind[f] = "reauth" /\ entries' = [entries EXCEPT ![subject[f]].token = token[f]]
        <5>1. CASE i = subject[f]
          <6>1. entries'[i] = [entries[subject[f]] EXCEPT !.token = token[f]]
            BY <4>5, <5>1 DEF TypeOK
          <6> QED BY <3>3, <4>2, <4>5, <6>1
        <5>2. CASE i # subject[f]
          BY <1>3, <4>5, <5>2 DEF TypeOK
        <5> QED BY <5>1, <5>2
      <4> QED BY <4>1, <4>3, <4>4, <4>5
    <3> QED
      BY <3>1, <3>2, <3>3
      DEF Steps, Submissions, FormStep, UserForm, DhcpConfirm, ReauthForm, ReconfigureForm,
          MakesBackup, ReadsBackup, SetsField, GeneratesCode, ReadsPage, Redeems, Fails, Tests,
          SameForm
  <2>3. Saves(f) => Accepted(token[f])
    BY DEF TokensTried, Saves
  <2> QED BY <2>1, <2>2, <2>3 DEF TokensTried
<1>4. \A g \in Forms : pc'[g] = "saving" => Accepted(token[g])'
  BY <1>1, <1>2 DEF Accepted
<1>5. \A i \in Ids : entries'[i] # None => Accepted(entries[i].token)'
  BY <1>1, <1>3 DEF Accepted
<1> QED BY <1>4, <1>5

LEMMA ResetStep == TypeOK /\ SetupInv /\ UserReset => SetupInv'
<1> SUFFICES ASSUME TypeOK, SetupInv, UserReset PROVE SetupInv' OBVIOUS
<1>1. PICK s \in Slots : table' = [table EXCEPT ![s].token = None]
  BY DEF UserReset
<1>2. /\ \A t \in Slots : /\ table'[t].name = table[t].name
                         /\ table'[t].token \in {table[t].token, None}
      /\ \A t \in Slots : table[t].token = None => table'[t].token = None
  <2>1. /\ [table[s] EXCEPT !.token = None].name = table[s].name
        /\ [table[s] EXCEPT !.token = None].token = None
    BY DEF TypeOK, Row
  <2> QED BY <1>1, <2>1 DEF TypeOK
<1>3. OnlyUserForms' /\ CodesPlaced'
  BY <1>2, ConstantsAssumption
  DEF SetupInv, OnlyUserForms, CodesPlaced, Coded, UserReset, form
<1>4. SlotsOwned'
  BY <1>2, ConstantsAssumption DEF SetupInv, SlotsOwned, UserReset, form
<1>5. SlotKnown'
  <2>1. \A f \in Forms : target[f] \in Slots
    BY DEF TypeOK
  <2>2. UNCHANGED <<pc, target, code, contested>>
    BY DEF UserReset, form
  <2> QED BY <1>2, <2>1, <2>2 DEF SetupInv, SlotKnown
<1>6. resets' # 0
  BY ConstantsAssumption DEF TypeOK, UserReset
<1> QED BY <1>3, <1>4, <1>5, <1>6 DEF SetupInv, TokensTried

LEMMA SetupStep == TypeOK /\ FormSound /\ SetupInv /\ [Next]_vars => SetupInv'
<1> SUFFICES ASSUME TypeOK, FormSound, SetupInv, [Next]_vars PROVE SetupInv' OBVIOUS
<1>1. CASE \E f \in Forms : Steps(f)
  BY <1>1, OnlyUserStep, PlacedStep, OwnedStep, KnownStep, TriedStep DEF SetupInv
<1>2. CASE UserReset
  BY <1>2, ResetStep
<1>3. CASE DeviceMoves \/ UNCHANGED vars
  <2>1. UNCHANGED <<device, entries, pc, form, resets, contested>>
    BY <1>3 DEF DeviceMoves, vars
  <2> QED
    BY <2>1 DEF SetupInv, OnlyUserForms, CodesPlaced, Coded, SlotsOwned, SlotKnown, TokensTried,
                Accepted, device, form
<1> QED BY <1>1, <1>2, <1>3 DEF Next, Steps

LEMMA SetupInit == Init => SetupInv
<1> SUFFICES ASSUME Init PROVE SetupInv OBVIOUS
<1>1. \A s \in Slots : table[s].token # None => table[s].name = table[s].token
  BY DEF Init
<1>2. \A s \in Slots : table[s].token \notin Forms
  BY ConstantsAssumption DEF Init
<1> QED
  BY <1>1, <1>2, ConstantsAssumption
  DEF Init, SetupInv, OnlyUserForms, CodesPlaced, SlotsOwned, SlotKnown, TokensTried, Making

\* What may happen to the user table in a step.
RowsKept ==
  \A s \in Slots \ contested :
    /\ table[s].name # None => table'[s].name = table[s].name
    /\ table[s].token # None => table'[s].token \in {table[s].token, None}

LEMMA RowsStep == TypeOK /\ SetupInv /\ [Next]_vars => RowsKept
<1> SUFFICES ASSUME TypeOK, SetupInv, [Next]_vars PROVE RowsKept OBVIOUS
<1>1. CASE \E f \in Forms : Steps(f)
  BY <1>1, TableStep DEF SetupInv, TableKept, RowsKept
<1>2. CASE UserReset
  <2>1. PICK s \in Slots : table' = [table EXCEPT ![s].token = None]
    BY <1>2 DEF UserReset
  <2>2. /\ [table[s] EXCEPT !.token = None].name = table[s].name
        /\ [table[s] EXCEPT !.token = None].token = None
    BY DEF TypeOK, Row
  <2> QED BY <2>1, <2>2 DEF TypeOK, RowsKept
<1>3. CASE DeviceMoves \/ UNCHANGED vars
  BY <1>3 DEF DeviceMoves, vars, device, RowsKept
<1> QED BY <1>1, <1>2, <1>3 DEF Next, Steps

\* No form takes the name or the activation of any user of the device (UsersKept), although
\* each may fail at any request and leave a user half made (provisioning.py, _provision) and
\* others are on their way beside it; but in a slot picked from a backup that was out of date
\* in it, or while another form was at it.
THEOREM UsersSafe == Spec => UsersKept
<1>1. Init => TypeOK /\ FormSound /\ SetupInv
  BY InitTyped, SetupInit DEF Init, FormSound
<1>2. TypeOK /\ FormSound /\ SetupInv /\ [Next]_vars => (TypeOK /\ FormSound /\ SetupInv)'
  BY StepTyped, SetupStep
<1>3. TypeOK /\ SetupInv /\ [Next]_vars => [RowsKept]_vars
  BY RowsStep
<1> QED BY <1>1, <1>2, <1>3, PTL DEF Spec, UsersKept, RowsKept

LEMMA SetupAlways == Spec => []SetupInv
<1>1. Init => TypeOK /\ FormSound /\ SetupInv
  BY InitTyped, SetupInit DEF Init, FormSound
<1>2. TypeOK /\ FormSound /\ SetupInv /\ [Next]_vars => (TypeOK /\ FormSound /\ SetupInv)'
  BY StepTyped, SetupStep
<1> QED BY <1>1, <1>2, PTL DEF Spec

\* A token in an entry stays one the device accepts until an activation is reset or a slot
\* is taken in one of those two ways (async_create_entry and async_update_reload_and_abort
\* after _validate_token).
THEOREM TokensSafe == Spec => []TokensLive
<1>1. SetupInv => TokensLive
  BY DEF SetupInv, TokensTried, TokensLive
<1> QED BY <1>1, SetupAlways, PTL

\* Each activation is that of the user the slot is named for, whatever codes other forms
\* have left in the table or are waiting for; with the same exception (_provision).
THEOREM ActivationsOwn == Spec => []OwnActivation
<1>1. SetupInv => OwnActivation
  BY ConstantsAssumption DEF SetupInv, SlotsOwned, OwnActivation
<1> QED BY <1>1, SetupAlways, PTL
-----------------------------------------------------------------------------
(* The host of an entry *)

\* The id of an entry made by hand is its host.  One discovery at a time is on its way, and
\* while it is the discovered entry does not exist: only then is one made.
HostsKnown ==
  /\ \A h \in Hosts : entries[h] # None => entries[h].host = h
  /\ \A f, g \in Forms :
       kind[f] = "dhcp" /\ kind[g] = "dhcp" /\ pc[f] \notin Ended /\ pc[g] \notin Ended => f = g
  /\ \A f \in Forms : kind[f] = "dhcp" /\ pc[f] \notin Ended => entries[Mac] = None

\* What may happen to the host of an entry in a step.
HostsKept ==
  \A i \in Ids : entries[i] # None /\ entries'[i].host # entries[i].host
                   => entries'[i].host = address

\* What a form may do to the entries: add one, change the host of the discovered one, or
\* change a token.
LEMMA EntrySteps ==
  ASSUME TypeOK, FormSound, HostsKnown, NEW f \in Forms, Steps(f)
  PROVE  \/ entries' = entries
         \/ /\ DhcpDiscovers(f) /\ entries[Mac] # None
            /\ entries' = [entries EXCEPT ![Mac].host = address]
         \/ /\ Saves(f) /\ kind[f] = "dhcp" /\ entries[Mac] = None /\ pc' = [pc EXCEPT ![f] = "done"]
            /\ entries' = [entries EXCEPT ![Mac] = Made(f)]
         \/ /\ Saves(f) /\ kind[f] # "dhcp"
            /\ entries' = [entries EXCEPT ![host[f]] = Made(f)]
         \/ /\ Saves(f) /\ kind[f] # "dhcp" /\ entries[subject[f]] # None
            /\ entries' = [entries EXCEPT ![subject[f]].token = token[f]]
<1>1. CASE Saves(f)
  <2>1. pc[f] \notin Ended
    BY <1>1 DEF Saves, Ended
  <2>2. CASE kind[f] = "dhcp"
    BY <1>1, <2>1, <2>2
    DEF HostsKnown, Saves, SavesUser, SavesDhcp, SavesReauth, SavesReconfigure, Stores, Goes
  <2>3. CASE kind[f] # "dhcp"
    BY <1>1, <2>3
    DEF FormSound, Saves, SavesUser, SavesDhcp, SavesReauth, SavesReconfigure, Stores
  <2> QED BY <2>2, <2>3
<1>2. CASE DhcpDiscovers(f)
  BY <1>2 DEF DhcpDiscovers
<1> QED
  BY <1>1, <1>2
  DEF Steps, Submissions, FormStep, UserForm, DhcpConfirm, ReauthForm, ReconfigureForm,
      MakesBackup, ReadsBackup, SetsField, GeneratesCode, ReadsPage, Redeems, Fails, Tests,
      SameForm

\* Which forms are discoveries, and which of those are over, changes in three ways only.
LEMMA DiscoverySteps ==
  ASSUME TypeOK, NEW f \in Forms, Steps(f)
  PROVE  /\ \A g \in Forms \ {f} : kind'[g] = kind[g] /\ pc'[g] = pc[g]
         /\ kind'[f] = "dhcp" /\ pc'[f] \notin Ended
              => \/ kind[f] = "dhcp" /\ pc[f] \notin Ended
                 \/ /\ entries[Mac] = None /\ UNCHANGED entries
                    /\ \A g \in Forms : kind[g] = "dhcp" => pc[g] \in Ended
<1> USE DEF TypeOK, Requests, Ended, Goes, Asks, SameForm, form
<1>1. CASE UserForm(f) \/ DhcpConfirm(f) \/ ReauthForm(f) \/ ReconfigureForm(f)
  BY <1>1 DEF UserForm, DhcpConfirm, ReauthForm, ReconfigureForm, Submits
<1>2. CASE DhcpDiscovers(f)
  BY <1>2 DEF DhcpDiscovers
<1>3. CASE MakesBackup(f) \/ ReadsBackup(f)
  BY <1>3 DEF MakesBackup, ReadsBackup
<1>4. CASE SetsField(f) \/ GeneratesCode(f) \/ ReadsPage(f)
  BY <1>4 DEF SetsField, GeneratesCode, ReadsPage
<1>5. CASE Redeems(f) \/ Fails(f) \/ Tests(f)
  BY <1>5 DEF Redeems, Fails, ShownAgain, Tests
<1>6. CASE Saves(f)
  BY <1>6 DEF Saves
<1> QED
  BY <1>1, <1>2, <1>3, <1>4, <1>5, <1>6 DEF Steps, Submissions, FormStep

LEMMA HostsFormStep ==
  ASSUME TypeOK, FormSound, HostsKnown, NEW f \in Forms, Steps(f)
  PROVE  HostsKnown' /\ HostsKept
<1>1. Mac \in Ids /\ Mac \notin Hosts /\ Hosts \subseteq Ids /\ address \in Hosts
      /\ host[f] \in Hosts /\ subject[f] \in Ids
  BY ConstantsAssumption DEF TypeOK, Ids
<1>2. \A i \in Ids : entries[i] # None => entries[i] \in Entry
  BY DEF TypeOK
<1>3. Made(f).host = host[f]
  BY DEF Made
<1>4. (\A h \in Hosts : entries[h] # None => entries[h].host = h)' /\ HostsKept
  <2>1. CASE entries' = entries
    BY <2>1 DEF HostsKnown, HostsKept
  <2>2. CASE entries[Mac] # None /\ entries' = [entries EXCEPT ![Mac].host = address]
    BY <2>2, <1>1, <1>2 DEF HostsKnown, HostsKept, TypeOK, Entry
  <2>3. CASE entries[Mac] = None /\ entries' = [entries EXCEPT ![Mac] = Made(f)]
    BY <2>3, <1>1 DEF HostsKnown, HostsKept, TypeOK
  <2>4. CASE entries' = [entries EXCEPT ![host[f]] = Made(f)]
    BY <2>4, <1>1, <1>3 DEF HostsKnown, HostsKept, TypeOK
  <2>5. CASE /\ entries[subject[f]] # None
             /\ entries' = [entries EXCEPT ![subject[f]].token = token[f]]
    <3>1. \A i \in Ids : entries[i] # None => entries'[i].host = entries[i].host
      BY <2>5, <1>1, <1>2 DEF TypeOK, Entry
    <3>2. \A i \in Ids : entries'[i] # None => entries[i] # None
      BY <2>5, <1>1 DEF TypeOK
    <3> QED BY <3>1, <3>2, <1>1 DEF HostsKnown, HostsKept
  <2> QED BY <2>1, <2>2, <2>3, <2>4, <2>5, EntrySteps
<1>5. ASSUME NEW g \in Forms, NEW h \in Forms,
             kind'[g] = "dhcp", kind'[h] = "dhcp", pc'[g] \notin Ended, pc'[h] \notin Ended
      PROVE  g = h
  BY <1>5, DiscoverySteps DEF HostsKnown
<1>6. ASSUME NEW g \in Forms, kind'[g] = "dhcp", pc'[g] \notin Ended
      PROVE  entries'[Mac] = None
  <2>1. entries[Mac] = None
    BY <1>6, DiscoverySteps DEF HostsKnown
  <2>2. CASE Saves(f) /\ kind[f] = "dhcp" /\ pc' = [pc EXCEPT ![f] = "done"]
    <3>1. kind' = kind /\ pc[f] = "saving" /\ pc'[f] \in Ended
      BY <2>2 DEF TypeOK, Saves, form, Ended
    <3>2. g # f /\ kind[g] = "dhcp" /\ pc[g] \notin Ended /\ pc[f] \notin Ended
      BY <1>6, <3>1, DiscoverySteps DEF Ended
    <3> QED BY <2>2, <3>2 DEF HostsKnown
  <2>3. CASE entries' = [entries EXCEPT ![host[f]] = Made(f)]
    BY <2>1, <2>3, <1>1 DEF TypeOK
  <2>4. CASE /\ entries[subject[f]] # None
             /\ entries' = [entries EXCEPT ![subject[f]].token = token[f]]
    BY <2>1, <2>4, <1>1 DEF TypeOK
  <2> QED BY <2>1, <2>2, <2>3, <2>4, EntrySteps
<1> QED BY <1>4, <1>5, <1>6 DEF HostsKnown

LEMMA HostsStep ==
  TypeOK /\ FormSound /\ HostsKnown /\ [Next]_vars => HostsKnown' /\ HostsKept
<1> SUFFICES ASSUME TypeOK, FormSound, HostsKnown, [Next]_vars PROVE HostsKnown' /\ HostsKept
  OBVIOUS
<1>1. CASE \E f \in Forms : Steps(f)
  BY <1>1, HostsFormStep
<1>2. CASE DeviceMoves \/ UserReset \/ UNCHANGED vars
  BY <1>2 DEF HostsKnown, HostsKept, DeviceMoves, UserReset, vars, form
<1> QED BY <1>1, <1>2 DEF Next, Steps

\* An entry's host only ever changes to the address the device has then (HostFollows): what
\* a discovery has brought up to date (_abort_if_unique_id_configured) is not set back by a
\* form that read the old host, however many forms overlap.
THEOREM HostsSafe == Spec => HostFollows
<1>1. Init => HostsKnown
  BY DEF Init, HostsKnown, Ids
<1>2. Init => FormSound
  BY DEF Init, FormSound
<1> QED BY <1>1, <1>2, InitTyped, StepTyped, HostsStep, PTL DEF Spec, HostFollows, HostsKept
=============================================================================
