--------------------------- MODULE Records_proofs ----------------------------
(***************************************************************************)
(* Proofs about Clearances, the clearance history of a member, Documents,  *)
(* the files kept with forms, posts and reports, and Assignments, the way  *)
(* of a task to its assignees: for any requests, records, files, people    *)
(* and requirements, whether or not requests stop half way.                *)
(***************************************************************************)
EXTENDS Clearances, Documents, Assignments, TLAPS

SettingSteps == {"supersede", "insert", "repoint"}
Settings == [op : {"clear"}, at : SettingSteps, id : {0} \cup Records]

SettingTypes ==
  /\ req \in [Requests -> {Idle} \cup Settings]
  /\ record \in [Records -> {"none", "current", "superseded"}]
  /\ member \in BOOLEAN /\ doubt \in BOOLEAN

(* With a removed member all records are gone.                             *)
GoneWithMember == ~member => pointer = 0 /\ \A n \in Records : record[n] = "none"

(* The lone change is the only one, and without it there is doubt.         *)
LoneAlone ==
  /\ lone \in Setting => Setting = {lone}
  /\ ~doubt => Setting \subseteq {lone}

(* How far the lone change has put the history right.                      *)
LoneAt(step) == lone \in Setting /\ req[lone].at = step

HalfWay ==
  /\ LoneAt("insert") => Current = {}
  /\ LoneAt("repoint") /\ member => Current = {req[lone].id} /\ req[lone].id \in Records

ClearancesInv ==
  SettingTypes /\ GoneWithMember /\ LoneAlone /\ HalfWay /\ OneCurrentUnlessDoubt

LEMMA ClearancesStart ==
  ASSUME HandlersInit, ClearancesInit
  PROVE  ClearancesInv
  <1>1. SettingTypes
    BY DEF HandlersInit, ClearancesInit, SettingTypes
  <1>2. Setting = {} /\ Current = {} /\ pointer = 0
    BY DEF HandlersInit, ClearancesInit, Setting, Current, Idle
  <1>3. lone = "nobody" /\ ~doubt
    BY DEF ClearancesInit
  <1>4. OneCurrentUnlessDoubt
    BY <1>2 DEF OneCurrentUnlessDoubt, CurrentAgrees
  <1>5. GoneWithMember
    BY DEF ClearancesInit, GoneWithMember
  <1> QED BY <1>1, <1>2, <1>3, <1>4, <1>5 DEF ClearancesInv, LoneAlone, HalfWay, LoneAt

(* A change goes on, beginning among the running ones, or ends.            *)
LEMMA SettingGoes ==
  ASSUME SettingTypes, NEW r \in Requests, NEW s \in Settings, req' = [req EXCEPT ![r] = s]
  PROVE  /\ req' \in [Requests -> {Idle} \cup Settings]
         /\ Setting' = Setting \cup {r} /\ req'[r] = s
         /\ \A x \in Requests \ {r} : req'[x] = req[x]
  BY DEF SettingTypes, Setting, Settings

LEMMA SettingEnds ==
  ASSUME SettingTypes, NEW r \in Requests, Done(r)
  PROVE  /\ req' \in [Requests -> {Idle} \cup Settings]
         /\ Setting' = Setting \ {r}
         /\ \A x \in Requests \ {r} : req'[x] = req[x]
  BY DEF SettingTypes, Setting, Settings, Done, Idle

LEMMA SettingShape ==
  ASSUME SettingTypes, NEW r \in Requests, req[r].op = "clear"
  PROVE  r \in Setting /\ req[r] \in Settings
  BY DEF SettingTypes, Setting, Idle

LEMMA SetClearanceStep ==
  ASSUME ClearancesInv, NEW r \in Requests, SetClearance(r)
  PROVE  ClearancesInv'
  <1> DEFINE s == [op |-> "clear", at |-> "supersede", id |-> 0]
  <1>1. s \in Settings
    BY DEF Settings, SettingSteps
  <1>2. /\ req' = [req EXCEPT ![r] = s] /\ req[r] = Idle
        /\ UNCHANGED <<record, pointer, member>>
        /\ lone' = IF Setting = {} THEN r ELSE "nobody"
        /\ doubt' = (doubt \/ Setting # {})
    BY DEF SetClearance, Begin
  <1>3. /\ req' \in [Requests -> {Idle} \cup Settings]
        /\ Setting' = Setting \cup {r} /\ req'[r] = s
    BY <1>1, <1>2, SettingGoes DEF ClearancesInv
  <1>4. SettingTypes' /\ GoneWithMember'
    BY <1>2, <1>3 DEF ClearancesInv, SettingTypes, GoneWithMember
  <1>5. "nobody" \notin Setting'
    BY ClearancesAssumption DEF Setting
  <1>6. LoneAlone'
    BY <1>2, <1>3, <1>5 DEF LoneAlone
  <1>7. HalfWay'
    BY <1>2, <1>3, <1>5 DEF HalfWay, LoneAt
  <1>8. OneCurrentUnlessDoubt'
    BY <1>3 DEF OneCurrentUnlessDoubt
  <1> QED BY <1>4, <1>6, <1>7, <1>8 DEF ClearancesInv

LEMMA SupersedeStep ==
  ASSUME ClearancesInv, NEW r \in Requests, Supersede(r)
  PROVE  ClearancesInv'
  <1> DEFINE s == [req[r] EXCEPT !.at = "insert"]
  <1>1. r \in Setting /\ req[r] \in Settings /\ req[r].at = "supersede"
    BY SettingShape DEF Supersede, At, ClearancesInv
  <1>2. s \in Settings /\ s.at = "insert"
    BY <1>1 DEF Settings, SettingSteps
  <1>3. req' = [req EXCEPT ![r] = s] /\ UNCHANGED <<pointer, member, lone, doubt>>
    BY DEF Supersede, GoTo
  <1> HIDE DEF s
  <1>4. record' = [n \in Records |-> IF n \in Current THEN "superseded" ELSE record[n]]
    BY DEF Supersede, Superseded
  <1>5. /\ req' \in [Requests -> {Idle} \cup Settings]
        /\ Setting' = Setting /\ req'[r] = s
        /\ \A x \in Requests \ {r} : req'[x] = req[x]
    <2>1. SettingTypes /\ Setting \cup {r} = Setting
      BY <1>1 DEF ClearancesInv
    <2> QED BY <1>2, <1>3, <2>1, SettingGoes
  <1>6. SettingTypes' /\ GoneWithMember'
    BY <1>3, <1>4, <1>5 DEF ClearancesInv, SettingTypes, GoneWithMember, Current
  <1>7. Current' = {}
    BY <1>4 DEF Current
  <1>8. LoneAlone'
    BY <1>3, <1>5 DEF ClearancesInv, LoneAlone
  <1>9. HalfWay'
    <2>1. ~LoneAt("repoint")'
      BY <1>1, <1>2, <1>3, <1>5 DEF LoneAt, ClearancesInv, LoneAlone
    <2> QED BY <1>7, <2>1 DEF HalfWay
  <1>10. OneCurrentUnlessDoubt'
    BY <1>1, <1>5 DEF OneCurrentUnlessDoubt
  <1> QED BY <1>6, <1>8, <1>9, <1>10 DEF ClearancesInv

LEMMA InsertRecordStep ==
  ASSUME ClearancesInv, NEW r \in Requests, InsertRecord(r)
  PROVE  ClearancesInv'
  <1>1. r \in Setting /\ req[r] \in Settings /\ req[r].at = "insert"
    BY SettingShape DEF InsertRecord, At, ClearancesInv
  <1>2. UNCHANGED <<pointer, member, lone, doubt>>
    BY DEF InsertRecord
  <1>3. CASE ~member /\ Done(r) /\ UNCHANGED record
    <2>1. /\ req' \in [Requests -> {Idle} \cup Settings] /\ Setting' = Setting \ {r}
      BY <1>3, SettingEnds DEF ClearancesInv
    <2>2. SettingTypes' /\ GoneWithMember'
      BY <1>2, <1>3, <2>1 DEF ClearancesInv, SettingTypes, GoneWithMember
    <2>3. Current' = {} /\ pointer' = 0
      BY <1>2, <1>3 DEF ClearancesInv, GoneWithMember, Current
    <2>4. LoneAlone'
      BY <1>1, <1>2, <2>1 DEF ClearancesInv, LoneAlone
    <2>5. HalfWay'
      BY <1>2, <1>3, <2>3 DEF HalfWay
    <2>6. OneCurrentUnlessDoubt'
      BY <2>3 DEF OneCurrentUnlessDoubt, CurrentAgrees
    <2> QED BY <2>2, <2>4, <2>5, <2>6 DEF ClearancesInv
  <1>4. ASSUME NEW n \in Records, record[n] = "none", member,
               record' = [record EXCEPT ![n] = "current"],
               req' = [req EXCEPT ![r].at = "repoint", ![r].id = n]
        PROVE  ClearancesInv'
    <2> DEFINE s == [req[r] EXCEPT !.at = "repoint", !.id = n]
    <2>1. s \in Settings /\ s.at = "repoint" /\ s.id = n
      BY <1>1 DEF Settings, SettingSteps
    <2>2. req' = [req EXCEPT ![r] = s]
      BY <1>4
    <2> HIDE DEF s
    <2>3. /\ req' \in [Requests -> {Idle} \cup Settings]
          /\ Setting' = Setting /\ req'[r] = s
          /\ \A x \in Requests \ {r} : req'[x] = req[x]
      <3>1. SettingTypes /\ Setting \cup {r} = Setting
        BY <1>1 DEF ClearancesInv
      <3> QED BY <2>1, <2>2, <3>1, SettingGoes
    <2>4. SettingTypes' /\ GoneWithMember'
      BY <1>2, <1>4, <2>3 DEF ClearancesInv, SettingTypes, GoneWithMember
    <2>5. Current' = Current \cup {n}
      BY <1>4 DEF Current, ClearancesInv, SettingTypes
    <2>6. LoneAlone'
      BY <1>2, <2>3 DEF ClearancesInv, LoneAlone
    <2>7. HalfWay'
      <3>1. ~LoneAt("insert")'
        BY <1>1, <1>2, <2>1, <2>3 DEF LoneAt, ClearancesInv, LoneAlone
      <3>2. LoneAt("repoint")' => lone = r /\ LoneAt("insert")
        BY <1>1, <1>2, <2>3 DEF LoneAt, ClearancesInv, LoneAlone
      <3>3. LoneAt("repoint")' => Current' = {n} /\ req'[lone'].id = n
        BY <1>2, <2>1, <2>3, <2>5, <3>2 DEF ClearancesInv, HalfWay
      <3> QED BY <3>1, <3>3 DEF HalfWay
    <2>8. OneCurrentUnlessDoubt'
      BY <1>1, <2>3 DEF OneCurrentUnlessDoubt
    <2> QED BY <2>4, <2>6, <2>7, <2>8 DEF ClearancesInv
  <1> QED BY <1>3, <1>4 DEF InsertRecord

LEMMA RepointStep ==
  ASSUME ClearancesInv, NEW r \in Requests, Repoint(r)
  PROVE  ClearancesInv'
  <1>1. r \in Setting /\ req[r].at = "repoint"
    BY SettingShape DEF Repoint, At, ClearancesInv
  <1>2. /\ UNCHANGED <<record, member, lone>> /\ Done(r)
        /\ pointer' = IF member THEN req[r].id ELSE pointer
        /\ doubt' = (doubt /\ lone # r)
    BY DEF Repoint
  <1>3. /\ req' \in [Requests -> {Idle} \cup Settings] /\ Setting' = Setting \ {r}
        /\ \A x \in Requests \ {r} : req'[x] = req[x]
    BY <1>2, SettingEnds DEF ClearancesInv
  <1>4. SettingTypes' /\ GoneWithMember'
    BY <1>2, <1>3 DEF ClearancesInv, SettingTypes, GoneWithMember
  <1>5. CASE lone = r
    <2>1. Setting' = {} /\ LoneAt("repoint")
      BY <1>1, <1>3, <1>5 DEF ClearancesInv, LoneAlone, LoneAt
    <2>2. CurrentAgrees'
      <3>1. Current' = Current /\ 0 \notin Records
        BY <1>2, ClearancesAssumption DEF Current, Records
      <3>2. CASE member
        BY <1>2, <1>5, <2>1, <3>1, <3>2 DEF ClearancesInv, HalfWay, CurrentAgrees
      <3>3. CASE ~member
        <4>1. Current = {} /\ pointer' = 0
          BY <1>2, <3>3 DEF ClearancesInv, GoneWithMember, Current
        <4> QED BY <3>1, <4>1 DEF CurrentAgrees
      <3> QED BY <3>2, <3>3
    <2> QED BY <1>4, <2>1, <2>2
            DEF ClearancesInv, LoneAlone, HalfWay, LoneAt, OneCurrentUnlessDoubt
  <1>6. CASE lone # r
    <2>1. doubt /\ doubt'
      BY <1>1, <1>2, <1>6 DEF ClearancesInv, LoneAlone, SettingTypes
    <2>2. lone \notin Setting
      BY <1>1, <1>6 DEF ClearancesInv, LoneAlone
    <2> QED BY <1>2, <1>3, <1>4, <2>1, <2>2
            DEF ClearancesInv, LoneAlone, HalfWay, LoneAt, OneCurrentUnlessDoubt
  <1> QED BY <1>5, <1>6

LEMMA RemoveMemberStep ==
  ASSUME ClearancesInv, RemoveMember
  PROVE  ClearancesInv'
  <1>1. /\ UNCHANGED <<req, lone, doubt>> /\ ~member'
        /\ record' = [n \in Records |-> "none"] /\ pointer' = 0
    BY DEF RemoveMember
  <1>2. Setting' = Setting /\ Current' = {}
    BY <1>1 DEF Setting, Current
  <1>3. SettingTypes' /\ GoneWithMember'
    BY <1>1 DEF RemoveMember, ClearancesInv, SettingTypes, GoneWithMember
  <1>4. LoneAlone' /\ HalfWay'
    BY <1>1, <1>2 DEF ClearancesInv, LoneAlone, HalfWay, LoneAt
  <1>5. OneCurrentUnlessDoubt'
    BY <1>1, <1>2 DEF OneCurrentUnlessDoubt, CurrentAgrees
  <1> QED BY <1>3, <1>4, <1>5 DEF ClearancesInv

LEMMA AbandonSettingStep ==
  ASSUME ClearancesInv, NEW r \in Requests, Abandon(r), doubt' = TRUE,
         UNCHANGED <<record, pointer, member, lone>>
  PROVE  ClearancesInv'
  <1>1. /\ req' \in [Requests -> {Idle} \cup Settings] /\ Setting' = Setting \ {r}
        /\ \A x \in Requests \ {r} : req'[x] = req[x]
    BY SettingEnds DEF Abandon, ClearancesInv
  <1>2. SettingTypes' /\ GoneWithMember'
    BY <1>1 DEF ClearancesInv, SettingTypes, GoneWithMember
  <1>3. LoneAlone'
    BY <1>1 DEF ClearancesInv, LoneAlone
  <1>4. Current' = Current
    BY DEF Current
  <1>5. lone \in Setting' => lone # r /\ lone \in Requests
    BY <1>1 DEF Setting
  <1>6. HalfWay'
    BY <1>1, <1>4, <1>5 DEF ClearancesInv, HalfWay, LoneAt
  <1>7. OneCurrentUnlessDoubt'
    BY DEF OneCurrentUnlessDoubt
  <1> QED BY <1>2, <1>3, <1>6, <1>7 DEF ClearancesInv

LEMMA ClearancesStay ==
  ASSUME ClearancesInv, [ClearancesNext]_<<mix, req, clearanceVars>>
  PROVE  ClearancesInv'
  <1>1. CASE UNCHANGED <<mix, req, clearanceVars>>
    BY <1>1
    DEF clearanceVars, ClearancesInv, SettingTypes, GoneWithMember, LoneAlone, HalfWay, LoneAt,
        OneCurrentUnlessDoubt, CurrentAgrees, Setting, Current
  <1> QED BY <1>1, SetClearanceStep, SupersedeStep, InsertRecordStep, RepointStep,
             RemoveMemberStep, AbandonSettingStep DEF ClearancesNext

(* However changes overlap and stop half way, one that has the history to  *)
(* itself until its end leaves one current record, to which the member     *)
(* points (team/store.go, SetClearance).                                   *)
THEOREM LoneChangeRestores == ClearancesSpec => []OneCurrentUnlessDoubt
  <1>1. HandlersInit /\ ClearancesInit => ClearancesInv
    BY ClearancesStart
  <1>2. ClearancesInv /\ [ClearancesNext]_<<mix, req, clearanceVars>> => ClearancesInv'
    BY ClearancesStay
  <1>3. ClearancesInv => OneCurrentUnlessDoubt
    BY DEF ClearancesInv
  <1> QED BY <1>1, <1>2, <1>3, PTL DEF ClearancesSpec

(* The pointer is to a record that is there, and so will the next be.      *)
Filed ==
  \A r \in Setting : req[r].at = "repoint" /\ member =>
    req[r].id \in Records /\ record[req[r].id] # "none"

LEMMA ClearancesTyped ==
  ASSUME ClearancesInv, ClearancesOK, Filed, ClearancesNext
  PROVE  ClearancesOK' /\ Filed' /\ mix' = mix
  <1>1. ASSUME NEW r \in Requests, SetClearance(r) PROVE ClearancesOK' /\ Filed' /\ mix' = mix
    <2> DEFINE s == [op |-> "clear", at |-> "supersede", id |-> 0]
    <2>1. s \in Settings /\ s.at = "supersede"
      BY DEF Settings, SettingSteps
    <2>2. /\ req' = [req EXCEPT ![r] = s] /\ UNCHANGED <<mix, record, pointer, member>>
          /\ lone' \in Requests \cup {"nobody"} /\ doubt' \in BOOLEAN
      BY <1>1 DEF SetClearance, Begin, ClearancesOK
    <2> HIDE DEF s
    <2>3. /\ Setting' = Setting \cup {r} /\ req'[r] = s
          /\ \A x \in Requests \ {r} : req'[x] = req[x]
      BY <2>1, <2>2, SettingGoes DEF ClearancesInv
    <2> QED BY <2>1, <2>2, <2>3 DEF ClearancesOK, Filed, Setting
  <1>2. ASSUME NEW r \in Requests, Supersede(r) PROVE ClearancesOK' /\ Filed' /\ mix' = mix
    <2>1. r \in Setting /\ req[r] \in Settings
      BY <1>2, SettingShape DEF Supersede, At, ClearancesInv
    <2> DEFINE s == [req[r] EXCEPT !.at = "insert"]
    <2>2. s \in Settings /\ s.at = "insert"
      BY <2>1 DEF Settings, SettingSteps
    <2>3. req' = [req EXCEPT ![r] = s] /\ UNCHANGED <<mix, pointer, member, lone, doubt>>
      BY <1>2 DEF Supersede, GoTo
    <2> HIDE DEF s
    <2>4. Setting' = Setting \cup {r} /\ req'[r] = s /\ \A x \in Requests \ {r} : req'[x] = req[x]
      BY <2>2, <2>3, SettingGoes DEF ClearancesInv
    <2>5. /\ record' \in [Records -> {"none", "current", "superseded"}]
          /\ \A n \in Records : record'[n] = "none" <=> record[n] = "none"
      BY <1>2 DEF Supersede, Superseded, Current, ClearancesOK
    <2> QED BY <2>2, <2>3, <2>4, <2>5 DEF ClearancesOK, Filed, Setting
  <1>3. ASSUME NEW r \in Requests, InsertRecord(r) PROVE ClearancesOK' /\ Filed' /\ mix' = mix
    <2>1. r \in Setting /\ req[r] \in Settings
      BY <1>3, SettingShape DEF InsertRecord, At, ClearancesInv
    <2>2. UNCHANGED <<mix, pointer, member, lone, doubt>>
      BY <1>3 DEF InsertRecord
    <2>3. CASE ~member /\ Done(r) /\ UNCHANGED record
      <3>1. Setting' = Setting \ {r} /\ \A x \in Requests \ {r} : req'[x] = req[x]
        BY <2>3, SettingEnds DEF ClearancesInv
      <3> QED BY <2>2, <2>3, <3>1 DEF ClearancesOK, Filed, Setting
    <2>4. ASSUME NEW n \in Records, record' = [record EXCEPT ![n] = "current"],
                 req' = [req EXCEPT ![r].at = "repoint", ![r].id = n]
          PROVE  ClearancesOK' /\ Filed'
      <3> DEFINE s == [req[r] EXCEPT !.at = "repoint", !.id = n]
      <3>1. s \in Settings /\ s.id = n
        BY <2>1 DEF Settings, SettingSteps
      <3>2. req' = [req EXCEPT ![r] = s]
        BY <2>4
      <3> HIDE DEF s
      <3>3. /\ Setting' = Setting \cup {r} /\ req'[r] = s
            /\ \A x \in Requests \ {r} : req'[x] = req[x]
        BY <3>1, <3>2, SettingGoes DEF ClearancesInv
      <3>4. /\ record' \in [Records -> {"none", "current", "superseded"}]
            /\ record'[n] = "current" /\ \A k \in Records \ {n} : record'[k] = record[k]
        BY <2>4 DEF ClearancesOK
      <3> QED BY <2>2, <3>1, <3>3, <3>4 DEF ClearancesOK, Filed, Setting
    <2> QED BY <1>3, <2>2, <2>3, <2>4 DEF InsertRecord
  <1>4. ASSUME NEW r \in Requests, Repoint(r) PROVE ClearancesOK' /\ Filed' /\ mix' = mix
    <2>1. r \in Setting /\ req[r].at = "repoint" /\ Done(r) /\ UNCHANGED <<mix, record, member, lone>>
      BY <1>4, SettingShape DEF Repoint, At, ClearancesInv
    <2>2. Setting' = Setting \ {r} /\ \A x \in Requests \ {r} : req'[x] = req[x]
      BY <2>1, SettingEnds DEF ClearancesInv
    <2>3. doubt' \in BOOLEAN /\ pointer' = IF member THEN req[r].id ELSE pointer
      BY <1>4 DEF Repoint
    <2> QED BY <2>1, <2>2, <2>3 DEF ClearancesOK, Filed, Setting
  <1>5. ASSUME NEW r \in Requests, Abandon(r), doubt' = TRUE,
               UNCHANGED <<record, pointer, member, lone>>
        PROVE  ClearancesOK' /\ Filed' /\ mix' = mix
    <2>1. Setting' = Setting \ {r} /\ (\A x \in Requests \ {r} : req'[x] = req[x]) /\ mix' = mix
      BY <1>5, SettingEnds DEF Abandon, ClearancesInv
    <2> QED BY <1>5, <2>1 DEF ClearancesOK, Filed, Setting
  <1>6. CASE RemoveMember
    BY <1>6 DEF RemoveMember, ClearancesOK, Filed, Setting
  <1> QED BY <1>1, <1>2, <1>3, <1>4, <1>5, <1>6 DEF ClearancesNext

-----------------------------------------------------------------------------
(* Files.                                                                  *)
Uploads == [op : {"upload"}, at : {"scan", "store", "insert", "clean"}, file : 1..MaxFiles]
Discards == [op : {"discard"}, at : {"clean"}, file : 1..MaxFiles]

FileTypes ==
  /\ req \in [Requests -> {Idle} \cup Uploads \cup Discards]
  /\ DocumentsOK
  /\ \A r \in Requests : req[r] # Idle => req[r].file <= sent
  /\ Owner = "dd254" => sent <= 1

(* Until its insert a file is known to its upload alone, until it is       *)
(* stored not even to the storage; a file that is discarded has no row.    *)
Early(r, steps) == req[r].op = "upload" /\ req[r].at \in steps

Fresh ==
  /\ \A r \in Requests : Early(r, {"scan", "store", "insert"}) =>
       /\ req[r].file \notin files
       /\ \A q \in Requests \ {r} : req[q] # Idle => req[q].file # req[r].file
  /\ \A r \in Requests : Early(r, {"scan", "store"}) => req[r].file # blob
  /\ \A r \in Requests : req[r].op = "discard" => req[r].file \notin files

(* Travel uploads never get as far as a clean-up.                          *)
NoCleanUp ==
  Owner = "travel" => \A r \in Requests : ~Early(r, {"clean"})

DocumentsInv == FileTypes /\ Fresh /\ NoCleanUp

LEMMA DocumentsStart ==
  ASSUME HandlersInit, DocumentsInit
  PROVE  DocumentsInv
  <1>1. \A r \in Requests : req[r] = Idle
    BY DEF HandlersInit
  <1>2. FileTypes
    BY DocumentsAssumption, <1>1 DEF HandlersInit, DocumentsInit, FileTypes, DocumentsOK
  <1> QED BY <1>1, <1>2 DEF DocumentsInv, Fresh, Early, NoCleanUp, Idle

(* What a request holds, and where it leads.                               *)
LEMMA FileShape ==
  ASSUME DocumentsInv, NEW r \in Requests, req[r] # Idle
  PROVE  /\ req[r] \in Uploads \/ req[r] \in Discards
         /\ req[r].file \in 1..MaxFiles /\ req[r].file \in 1..sent
         /\ req[r].op \in {"upload", "discard"}
  BY DEF DocumentsInv, FileTypes, Uploads, Discards, DocumentsOK

LEMMA FileGoes ==
  ASSUME DocumentsInv, NEW r \in Requests, NEW q \in {Idle} \cup Uploads \cup Discards,
         req' = [req EXCEPT ![r] = q]
  PROVE  /\ req' \in [Requests -> {Idle} \cup Uploads \cup Discards]
         /\ req'[r] = q /\ \A x \in Requests \ {r} : req'[x] = req[x]
  BY DEF DocumentsInv, FileTypes

(* An upload goes to its next step, with the same file.                    *)
LEMMA UploadGoes ==
  ASSUME DocumentsInv, NEW r \in Requests, req[r] # Idle, req[r].op = "upload",
         NEW step \in {"scan", "store", "insert", "clean"}, GoTo(r, step)
  PROVE  /\ req' \in [Requests -> {Idle} \cup Uploads \cup Discards]
         /\ req'[r] \in Uploads /\ req'[r].op = "upload" /\ req'[r].at = step
         /\ req'[r].file = req[r].file /\ req'[r] # Idle
         /\ \A x \in Requests \ {r} : req'[x] = req[x]
  <1> DEFINE q == [req[r] EXCEPT !.at = step]
  <1>1. req[r] \in Uploads
    BY FileShape DEF Discards
  <1>2. q \in Uploads /\ q.op = "upload" /\ q.at = step /\ q.file = req[r].file /\ q # Idle
    BY <1>1 DEF Uploads, Idle
  <1>3. req' = [req EXCEPT ![r] = q]
    BY DEF GoTo
  <1> HIDE DEF q
  <1> QED BY <1>2, <1>3, FileGoes

LEMMA FileEnds ==
  ASSUME DocumentsInv, NEW r \in Requests, Done(r)
  PROVE  /\ req' \in [Requests -> {Idle} \cup Uploads \cup Discards]
         /\ req'[r] = Idle /\ \A x \in Requests \ {r} : req'[x] = req[x]
  BY FileGoes DEF Done

LEMMA UploadStep ==
  ASSUME DocumentsInv, NEW r \in Requests,
         UploadForm(r) \/ UploadToPost(r) \/ UploadToReport(r)
  PROVE  /\ DocumentsInv' /\ req[r] = Idle /\ UNCHANGED <<mix, blob, files, owner>>
         /\ \A x \in Requests \ {r} : req'[x] = req[x]
  <1> DEFINE q == [op |-> "upload", at |-> "scan", file |-> sent + 1]
  <1>1. /\ req' = [req EXCEPT ![r] = q] /\ req[r] = Idle /\ sent' = sent + 1
        /\ UNCHANGED <<mix, blob, files, owner>> /\ owner = "there"
    BY DEF UploadForm, UploadToPost, UploadToReport, UploadFile, Begin
  <1>2. /\ sent \in Nat /\ sent + 1 \in 1..MaxFiles /\ blob \in 0..sent /\ files \subseteq 1..sent
        /\ Owner = "dd254" => sent = 0
    BY DocumentsAssumption
    DEF UploadForm, UploadToPost, UploadToReport, DocumentsInv, FileTypes, DocumentsOK
  <1>3. q \in Uploads /\ q.op = "upload" /\ q.at = "scan" /\ q.file = sent + 1 /\ q # Idle
    BY <1>2 DEF Uploads, Idle
  <1> HIDE DEF q
  <1>4. /\ req' \in [Requests -> {Idle} \cup Uploads \cup Discards]
        /\ req'[r] = q /\ \A x \in Requests \ {r} : req'[x] = req[x]
    BY <1>1, <1>3, FileGoes
  <1>5. \A x \in Requests : req[x] # Idle => req[x].file \in 1..sent
    BY FileShape
  <1>6. DocumentsOK'
    BY <1>1, <1>2 DEF DocumentsInv, FileTypes, DocumentsOK
  <1>7. FileTypes'
    <2>1. ASSUME NEW x \in Requests, req'[x] # Idle PROVE req'[x].file <= sent'
      BY <1>1, <1>2, <1>3, <1>4, <1>5, <2>1
    <2> QED BY <1>1, <1>2, <1>4, <1>6, <2>1 DEF FileTypes, Owner
  <1>8. Fresh'
    <2>1. sent + 1 \notin files /\ sent + 1 # blob
      BY <1>2
    <2>2. \A x \in Requests : req[x] # Idle => req[x].file # sent + 1
      BY <1>2, <1>5
    <2>3. \A x \in Requests : req[x].op \in {"upload", "discard"} => req[x] # Idle
      BY DEF Idle
    <2> QED BY <1>1, <1>3, <1>4, <2>1, <2>2, <2>3 DEF Fresh, Early, DocumentsInv
  <1>9. NoCleanUp'
    BY <1>1, <1>3, <1>4 DEF NoCleanUp, Early, DocumentsInv, Owner
  <1> QED BY <1>1, <1>4, <1>7, <1>8, <1>9 DEF DocumentsInv

(* A request goes on or ends: what is early remains so, but for a file of  *)
(* its own that it stores or lists.                                        *)
LEMMA FileStands ==
  ASSUME DocumentsInv, NEW r \in Requests, req[r] # Idle, UNCHANGED <<mix, sent, owner>>,
         req' \in [Requests -> {Idle} \cup Uploads \cup Discards],
         \A x \in Requests \ {r} : req'[x] = req[x],
         \/ req'[r] = Idle
         \/ /\ req'[r].op = req[r].op /\ req'[r].file = req[r].file /\ req'[r] # Idle
            /\ Early(r, {"scan", "store", "insert"})' => Early(r, {"scan", "store", "insert"})
            /\ Early(r, {"scan", "store"})' => Early(r, {"scan", "store"})
            /\ Early(r, {"clean"})' => Owner # "travel",
         \/ files' \subseteq files
         \/ /\ Early(r, {"insert"}) /\ ~Early(r, {"scan", "store", "insert"})'
            /\ files' \subseteq files \cup {req[r].file} /\ owner = "there",
         \/ blob' = 0 \/ blob' = blob
         \/ /\ Early(r, {"store"}) /\ ~Early(r, {"scan", "store"})'
            /\ blob' = req[r].file
  PROVE  DocumentsInv'
  <1>1. /\ req[r].file \in 1..sent /\ \A x \in Requests : req[x] # Idle => req[x].file \in 1..sent
        /\ \A x \in Requests : req[x].op \in {"upload", "discard"} => req[x] # Idle
    BY FileShape DEF Idle
  <1>2. /\ sent \in 0..MaxFiles /\ blob \in 0..sent /\ files \subseteq 1..sent
        /\ files # {} => owner = "there"
    BY DEF DocumentsInv, FileTypes, DocumentsOK
  <1>3. DocumentsOK'
    <2>1. blob' \in 0..sent'
      BY <1>1, <1>2, DocumentsAssumption
    <2>2. files' \subseteq 1..sent'
      BY <1>1, <1>2
    <2> QED BY <1>2, <2>1, <2>2 DEF DocumentsInv, FileTypes, DocumentsOK
  <1>4. FileTypes'
    BY <1>3 DEF DocumentsInv, FileTypes, Owner
  <1>5. ASSUME NEW x \in Requests, Early(x, {"scan", "store", "insert"})'
        PROVE  /\ Early(x, {"scan", "store", "insert"}) /\ req'[x].file = req[x].file
               /\ req[x] # Idle /\ req[x].file \notin files
               /\ \A q \in Requests \ {x} : req[q] # Idle => req[q].file # req[x].file
               /\ Early(x, {"scan", "store"})' => Early(x, {"scan", "store"})
    <2>1. Early(x, {"scan", "store", "insert"}) /\ req'[x].file = req[x].file
      BY <1>5 DEF Early, Idle
    <2>2. Early(x, {"scan", "store"})' => Early(x, {"scan", "store"})
      BY DEF Early, Idle
    <2> QED BY <2>1, <2>2, <1>1 DEF DocumentsInv, Fresh, Early
  <1>6. ASSUME NEW x \in Requests, Early(x, {"scan", "store", "insert"})'
        PROVE  /\ req'[x].file \notin files'
               /\ \A q \in Requests \ {x} : req'[q] # Idle => req'[q].file # req'[x].file
    <2>1. req'[x].file \notin files'
      BY <1>5, <1>6
    <2>2. ASSUME NEW q \in Requests \ {x}, req'[q] # Idle
          PROVE  req'[q].file # req'[x].file
      <3>1. req[q] # Idle /\ req'[q].file = req[q].file
        BY <2>2
      <3> QED BY <1>5, <1>6, <3>1
    <2> QED BY <2>1, <2>2
  <1>7. ASSUME NEW x \in Requests, Early(x, {"scan", "store"})'
        PROVE  req'[x].file # blob'
    <2>1. Early(x, {"scan", "store", "insert"})'
      BY <1>7 DEF Early
    <2>2. req[x].file # blob /\ req[x].file \in 1..sent /\ req'[x].file = req[x].file
      BY <1>1, <1>5, <1>7, <2>1 DEF DocumentsInv, Fresh
    <2>3. x # r => req[x].file # req[r].file
      BY <1>5, <2>1
    <2> QED BY <1>7, <2>2, <2>3
  <1>8. ASSUME NEW x \in Requests, req'[x].op = "discard"
        PROVE  req'[x].file \notin files'
    <2>1. req[x].op = "discard" /\ req'[x].file = req[x].file /\ req[x] # Idle
      BY <1>1, <1>8 DEF Idle
    <2>2. req[x].file \notin files
      BY <2>1 DEF DocumentsInv, Fresh
    <2>3. Early(r, {"insert"}) => r # x /\ req[x].file # req[r].file
      BY <2>1 DEF DocumentsInv, Fresh, Early
    <2> QED BY <2>1, <2>2, <2>3
  <1>9. Fresh'
    BY <1>6, <1>7, <1>8 DEF Fresh
  <1>10. NoCleanUp'
    <2>1. ASSUME NEW x \in Requests, Early(x, {"clean"})', Owner = "travel"
          PROVE  FALSE
      <3>1. x # r
        BY <2>1 DEF Early, Idle
      <3> QED BY <2>1, <3>1 DEF DocumentsInv, NoCleanUp, Early
    <2> QED BY <2>1 DEF NoCleanUp, Owner
  <1> QED BY <1>4, <1>9, <1>10 DEF DocumentsInv

LEMMA ScanStep ==
  ASSUME DocumentsInv, NEW r \in Requests, Scan(r)
  PROVE  DocumentsInv'
  <1>1. /\ req[r] # Idle /\ req[r].op = "upload" /\ req[r].at = "scan"
        /\ UNCHANGED <<mix, blob, files, sent, owner>>
    BY DEF Scan, At, Idle
  <1>2. CASE Done(r)
    BY <1>1, <1>2, FileEnds, FileStands
  <1>3. CASE GoTo(r, "store")
    BY <1>1, <1>3, UploadGoes, FileStands DEF Early
  <1> QED BY <1>2, <1>3 DEF Scan

LEMMA StoreStep ==
  ASSUME DocumentsInv, NEW r \in Requests, StoreBlob(r)
  PROVE  DocumentsInv'
  <1>1. /\ req[r] # Idle /\ req[r].op = "upload" /\ req[r].at = "store"
        /\ UNCHANGED <<mix, files, sent, owner>>
    BY DEF StoreBlob, At, Idle
  <1>2. CASE Done(r) /\ UNCHANGED blob
    BY <1>1, <1>2, FileEnds, FileStands
  <1>3. CASE GoTo(r, "insert") /\ blob' = req[r].file
    BY <1>1, <1>3, UploadGoes, FileStands DEF Early
  <1> QED BY <1>2, <1>3 DEF StoreBlob

(* After its insert an upload ends, or cleans up, if it ever does.         *)
LEMMA InsertEnds ==
  ASSUME DocumentsInv, NEW r \in Requests, InsertFile(r)
  PROVE  /\ req[r] # Idle /\ req[r].op = "upload" /\ req[r].at = "insert"
         /\ req' \in [Requests -> {Idle} \cup Uploads \cup Discards]
         /\ \A x \in Requests \ {r} : req'[x] = req[x]
         /\ \/ req'[r] = Idle
            \/ /\ req'[r].op = "upload" /\ req'[r].at = "clean" /\ req'[r].file = req[r].file
               /\ req'[r] # Idle /\ Owner # "travel"
         /\ UNCHANGED <<mix, blob, sent, owner>>
         /\ \/ files' = files /\ (req'[r] = Idle => Owner = "travel")
            \/ files' = files \cup {req[r].file} /\ owner = "there"
  <1>1. req[r] # Idle /\ req[r].op = "upload" /\ req[r].at = "insert"
    BY DEF InsertFile, At, Idle
  <1>2. /\ UNCHANGED <<mix, blob, sent, owner>>
        /\ \/ files' = files /\ Fail(r)
           \/ files' = files \cup {req[r].file} /\ owner = "there" /\ (Done(r) \/ Fail(r))
    BY DEF InsertFile
  <1>3. Fail(r) => IF Owner = "travel" THEN Done(r) ELSE GoTo(r, "clean")
    BY DEF Fail, AfterFailure
  <1>4. CASE Done(r) /\ (Fail(r) => Owner = "travel")
    BY <1>1, <1>2, <1>4, FileEnds
  <1>5. CASE GoTo(r, "clean") /\ Owner # "travel"
    BY <1>1, <1>2, <1>3, <1>5, UploadGoes
  <1> QED BY <1>2, <1>3, <1>4, <1>5

LEMMA InsertFileStep ==
  ASSUME DocumentsInv, NEW r \in Requests, InsertFile(r)
  PROVE  DocumentsInv'
  <1>1. Early(r, {"insert"}) /\ ~Early(r, {"scan", "store", "insert"})'
    BY InsertEnds DEF Early, Idle
  <1> QED BY <1>1, InsertEnds, FileStands DEF Early

LEMMA DeleteFileStep ==
  ASSUME DocumentsInv, NEW r \in Requests, NEW f \in files,
         AdminDeleteFile(r, f) \/ DeleteUpload(r, f)
  PROVE  /\ DocumentsInv' /\ req[r] = Idle /\ UNCHANGED <<mix, blob, sent, owner>>
         /\ req'[r] # Idle /\ req'[r].file = f /\ files' = files \ {f}
         /\ \A x \in Requests \ {r} : req'[x] = req[x]
  <1> DEFINE q == [op |-> "discard", at |-> "clean", file |-> f]
  <1>1. /\ req' = [req EXCEPT ![r] = q] /\ req[r] = Idle /\ files' = files \ {f}
        /\ UNCHANGED <<mix, blob, sent, owner>>
    BY DEF AdminDeleteFile, DeleteUpload, DeleteFile, Begin
  <1>2. sent \in 0..MaxFiles /\ files \subseteq 1..sent /\ f \in 1..MaxFiles /\ f \in 1..sent
    BY DocumentsAssumption DEF DocumentsInv, FileTypes, DocumentsOK
  <1>3. q \in Discards /\ q.op = "discard" /\ q.file = f /\ q # Idle
    BY <1>2 DEF Discards, Idle
  <1> HIDE DEF q
  <1>4. /\ req' \in [Requests -> {Idle} \cup Uploads \cup Discards]
        /\ req'[r] = q /\ \A x \in Requests \ {r} : req'[x] = req[x]
    BY <1>1, <1>3, FileGoes
  <1>5. DocumentsOK'
    BY <1>1 DEF DocumentsInv, FileTypes, DocumentsOK
  <1>6. FileTypes'
    BY <1>1, <1>2, <1>3, <1>4, <1>5 DEF DocumentsInv, FileTypes, Owner
  <1>7. \A x \in Requests : Early(x, {"scan", "store", "insert"})' =>
          x # r /\ Early(x, {"scan", "store", "insert"}) /\ req[x].file # f
    BY <1>3, <1>4 DEF DocumentsInv, Fresh, Early
  <1>8. Fresh'
    BY <1>1, <1>3, <1>4, <1>7 DEF DocumentsInv, Fresh, Early
  <1>9. NoCleanUp'
    BY <1>1, <1>3, <1>4 DEF DocumentsInv, NoCleanUp, Early, Owner
  <1> QED BY <1>1, <1>3, <1>4, <1>6, <1>8, <1>9 DEF DocumentsInv

LEMMA RemoveBlobStep ==
  ASSUME DocumentsInv, NEW r \in Requests, RemoveBlob(r)
  PROVE  DocumentsInv'
  <1>1. /\ req[r] # Idle /\ Done(r) /\ UNCHANGED <<mix, files, sent, owner>>
        /\ blob' = 0 \/ blob' = blob
    BY DEF RemoveBlob, Idle
  <1> QED BY <1>1, FileEnds, FileStands

LEMMA DocumentsOtherStep ==
  ASSUME DocumentsInv,
         \/ \E r \in Requests : Abandon(r) /\ UNCHANGED documentVars
         \/ CreateOwner \/ DeletePost
         \/ UNCHANGED <<mix, req, documentVars>>
  PROVE  DocumentsInv'
  <1>1. ASSUME NEW r \in Requests, Abandon(r), UNCHANGED documentVars PROVE DocumentsInv'
    <2>1. req[r] # Idle /\ Done(r) /\ UNCHANGED <<mix, files, sent, owner, blob>>
      BY <1>1 DEF Abandon, documentVars
    <2> QED BY <2>1, FileEnds, FileStands
  <1>2. CASE CreateOwner \/ DeletePost \/ UNCHANGED <<mix, req, documentVars>>
    <2>1. UNCHANGED <<mix, req, blob, sent>> /\ (files' = files \/ files' = {}) /\ DocumentsOK'
      BY <1>2 DEF CreateOwner, DeletePost, documentVars, DocumentsInv, FileTypes, DocumentsOK
    <2> QED BY <2>1 DEF DocumentsInv, FileTypes, Fresh, Early, NoCleanUp, Owner
  <1> QED BY <1>1, <1>2

LEMMA DocumentsStay ==
  ASSUME DocumentsInv, [DocumentsNext]_<<mix, req, documentVars>>
  PROVE  DocumentsInv'
  BY UploadStep, ScanStep, StoreStep, InsertFileStep, DeleteFileStep, RemoveBlobStep,
     DocumentsOtherStep DEF DocumentsNext

-----------------------------------------------------------------------------
(* What is stored under the key changes by two steps only.                 *)
LEMMA BlobMoves ==
  ASSUME DocumentsInv, [DocumentsNext]_<<mix, req, documentVars>>, blob' # blob
  PROVE  \E r \in Requests : \/ StoreBlob(r) /\ blob' = req[r].file
                             \/ RemoveBlob(r) /\ blob' = 0
  <1>1. PICK r \in Requests : StoreBlob(r) \/ RemoveBlob(r)
    BY UploadStep, DeleteFileStep
    DEF DocumentsNext, Scan, InsertFile, Abandon, CreateOwner, DeletePost, documentVars
  <1> QED BY <1>1 DEF StoreBlob, RemoveBlob

(* A row loses its content only to another file of the same name, or to    *)
(* the clean-up after its own insert (dd254/handler.go:242).               *)
THEOREM ContentStays == DocumentsSpec => ContentLostOnlyBy
  <1>1. ASSUME DocumentsInv, [DocumentsNext]_<<mix, req, documentVars>>
        PROVE  [\A f \in files \cap files' :
                  blob = f /\ blob' # f =>
                    \E r \in Requests :
                      /\ Moves(r)
                      /\ IF req[r].file = f THEN At(r, "upload", "clean")
                         ELSE Owner # "dd254"]_<<mix, req, documentVars>>
    <2>1. SUFFICES ASSUME NEW f \in files \cap files', blob = f, blob' # f
                   PROVE  \E r \in Requests :
                            /\ Moves(r)
                            /\ IF req[r].file = f THEN At(r, "upload", "clean")
                               ELSE Owner # "dd254"
      OBVIOUS
    <2>2. PICK r \in Requests : \/ StoreBlob(r) /\ blob' = req[r].file
                                \/ RemoveBlob(r) /\ blob' = 0
      BY <1>1, <2>1, BlobMoves
    <2>3. /\ req[r] # Idle /\ req[r].file \in 1..sent /\ f \in 1..sent
          /\ Owner = "dd254" => sent <= 1 /\ sent \in Nat
      BY <1>1, <2>2, FileShape, DocumentsAssumption
      DEF StoreBlob, RemoveBlob, At, Idle, DocumentsInv, FileTypes, DocumentsOK
    <2>4. Owner = "dd254" => req[r].file = f
      BY <2>3
    <2>5. CASE StoreBlob(r) /\ blob' = req[r].file
      <3>1. GoTo(r, "insert") /\ At(r, "upload", "store")
        BY <2>1, <2>5 DEF StoreBlob
      <3>2. Moves(r)
        BY <1>1, <2>3, <3>1, UploadGoes DEF Moves, At
      <3> QED BY <2>1, <2>4, <2>5, <3>2
    <2>6. CASE RemoveBlob(r) /\ blob' = 0
      <3>1. /\ Moves(r) /\ req[r].at = "clean"
            /\ req[r].op \in {"upload", "discard"}
        BY <1>1, <2>3, <2>6, FileEnds DEF RemoveBlob, Moves
      <3>2. req[r].op = "discard" => req[r].file # f
        BY <1>1, <2>1 DEF DocumentsInv, Fresh
      <3> QED BY <2>4, <3>1, <3>2 DEF At
    <2> QED BY <2>2, <2>5, <2>6
  <1> QED BY <1>1, DocumentsStart, DocumentsStay, PTL DEF DocumentsSpec, ContentLostOnlyBy

(* What a step that orphans a blob is.                                     *)
LEMMA OrphanStep ==
  ASSUME DocumentsInv, DocumentsNext, ~Orphan, Orphan'
  PROVE  \/ "stop" \in mix
         \/ owner = "there" /\ owner' = "gone"
         \/ \E r \in Requests :
              Moves(r) /\ req[r].at = (IF Owner = "travel" /\ req[r].op = "upload"
                                        THEN "insert" ELSE "clean")
  <1>1. ASSUME NEW r \in Requests, Scan(r) PROVE FALSE
    <2>1. /\ req[r] # Idle /\ At(r, "upload", "scan") /\ UNCHANGED <<blob, files>>
      BY <1>1 DEF Scan, At, Idle
    <2>2. req[r].file # blob
      BY <2>1 DEF DocumentsInv, Fresh, Early, At
    <2>3. \A x \in Requests \ {r} : req'[x] = req[x]
      BY <1>1, <2>1, FileEnds, UploadGoes DEF Scan, At
    <2> QED BY <2>1, <2>2, <2>3 DEF Orphan
  <1>2. ASSUME NEW r \in Requests, StoreBlob(r) PROVE FALSE
    <2>1. /\ req[r] # Idle /\ At(r, "upload", "store") /\ UNCHANGED files
      BY <1>2 DEF StoreBlob, At, Idle
    <2>2. CASE GoTo(r, "insert") /\ blob' = req[r].file
      BY <2>1, <2>2, UploadGoes DEF Orphan, At
    <2>3. CASE Done(r) /\ blob' = blob
      <3>1. req[r].file # blob
        BY <2>1 DEF DocumentsInv, Fresh, Early, At
      <3> QED BY <2>1, <2>3, <3>1, FileEnds DEF Orphan
    <2> QED BY <1>2, <2>2, <2>3 DEF StoreBlob
  <1>3. ASSUME NEW r \in Requests, InsertFile(r)
        PROVE  Moves(r) /\ req[r].at = "insert" /\ req[r].op = "upload" /\ Owner = "travel"
    <2>1. req[r] # Idle /\ UNCHANGED blob /\ \A x \in Requests \ {r} : req'[x] = req[x]
      BY <1>3, InsertEnds
    <2>2. CASE files' = files \cup {req[r].file}
      BY <2>1, <2>2 DEF Orphan
    <2>3. CASE files' = files /\ req'[r] # Idle /\ req'[r].file = req[r].file
      BY <2>1, <2>3 DEF Orphan
    <2>4. req'[r] = Idle /\ Owner = "travel"
      BY <1>3, <2>2, <2>3, InsertEnds
    <2> QED BY <1>3, <2>4, InsertEnds DEF Moves
  <1>4. ASSUME NEW r \in Requests, NEW f \in files, AdminDeleteFile(r, f) \/ DeleteUpload(r, f)
        PROVE  FALSE
    BY <1>4, DeleteFileStep DEF Orphan
  <1>5. ASSUME NEW r \in Requests, RemoveBlob(r)
        PROVE  Moves(r) /\ req[r].at = "clean" /\ ~(Owner = "travel" /\ req[r].op = "upload")
    <2>1. req[r] # Idle /\ Done(r) /\ req[r].at = "clean"
      BY <1>5 DEF RemoveBlob, Idle
    <2>2. Moves(r)
      BY <2>1, FileEnds DEF Moves
    <2> QED BY <2>1, <2>2 DEF DocumentsInv, NoCleanUp, Early
  <1>6. ASSUME NEW r \in Requests, UploadForm(r) \/ UploadToPost(r) \/ UploadToReport(r)
        PROVE  FALSE
    BY <1>6, UploadStep DEF Orphan
  <1>7. CreateOwner => FALSE
    BY DEF CreateOwner, Orphan
  <1>8. DeletePost => owner = "there" /\ owner' = "gone"
    BY DEF DeletePost
  <1> QED BY <1>1, <1>2, <1>3, <1>4, <1>5, <1>6, <1>7, <1>8 DEF DocumentsNext

(* A blob no row and no request knows is left by a deleted post, a request *)
(* that stopped, a travel upload whose insert failed, or a clean-up that   *)
(* failed (travel/handler.go:260, wiki/handler.go:346).                    *)
THEOREM BlobsFollowRows == DocumentsSpec => OrphanLeftOnlyBy
  <1>1. ASSUME DocumentsInv, [DocumentsNext]_<<mix, req, documentVars>>
        PROVE  [~Orphan /\ Orphan' =>
                  \/ "stop" \in mix
                  \/ owner = "there" /\ owner' = "gone"
                  \/ \E r \in Requests :
                       Moves(r) /\ req[r].at = (IF Owner = "travel" /\ req[r].op = "upload"
                                                 THEN "insert" ELSE "clean")]_<<mix, req, documentVars>>
    BY <1>1, OrphanStep
  <1> QED BY <1>1, DocumentsStart, DocumentsStay, PTL DEF DocumentsSpec, OrphanLeftOnlyBy

-----------------------------------------------------------------------------
(* Tasks and their assignees.                                              *)
Creations ==
  [op : {"assign"}, at : {"requirement", "rule", "list", "notify"},
   asks : SUBSET Requirements, wanted : SUBSET Rules, todo : SUBSET Staff,
   mail : BOOLEAN]

CreationTypes ==
  /\ req \in [Requests -> {Idle} \cup Creations]
  /\ AssignmentsOK

(* A task is created once, and no rule is there before all requirements.   *)
OneCreation ==
  /\ state = "none" => \A r \in Requests : req[r] = Idle
  /\ \A r, q \in Requests : req[r] # Idle /\ req[q] # Idle => r = q
  /\ rules # {} => asked = Requirements

(* How far the creation has come: what is still to be inserted, and whom   *)
(* the list that was read leaves to be told.                               *)
Creating(q) ==
  /\ q.at = "requirement" => rules = {} /\ asked \cup q.asks = Requirements
  /\ q.at \in {"rule", "list", "notify"} => asked = Requirements /\ q.asks = {}

AssignmentsInv ==
  /\ CreationTypes /\ OneCreation
  /\ \A r \in Requests : Creating(req[r])

LEMMA AssignmentsStart ==
  ASSUME HandlersInit, AssignmentsInit
  PROVE  AssignmentsInv
  BY DEF HandlersInit, AssignmentsInit, AssignmentsInv, CreationTypes, OneCreation, Creating,
         AssignmentsOK, Idle

(* The next step is the first that has anything left to do.                *)
LEMMA OnwardFirst ==
  ASSUME NEW q
  PROVE  Onward(q) = [q EXCEPT !.at = IF q.asks # {} THEN "requirement"
                                      ELSE IF q.wanted # {} THEN "rule" ELSE "list"]
  <1> DEFINE idle(s) == IF s = "requirement" THEN q.asks = {}
                        ELSE s = "rule" /\ q.wanted = {}
             n == CHOOSE i \in 1..3 : ~idle(Steps[i]) /\ \A j \in 1..(i - 1) : idle(Steps[j])
             m == IF q.asks # {} THEN 1 ELSE IF q.wanted # {} THEN 2 ELSE 3
  <1>1. Steps[1] = "requirement" /\ Steps[2] = "rule" /\ Steps[3] = "list"
    BY DEF Steps
  <1>2. m \in 1..3 /\ ~idle(Steps[m]) /\ \A j \in 1..(m - 1) : idle(Steps[j])
    BY <1>1
  <1>3. ASSUME NEW i \in 1..3, ~idle(Steps[i]), \A j \in 1..(i - 1) : idle(Steps[j])
        PROVE  i = m
    <2>1. ~(i < m)
      BY <1>2, <1>3
    <2>2. ~(m < i)
      BY <1>2, <1>3
    <2> QED BY <1>2, <2>1, <2>2
  <1>4. n = m
    <2> HIDE DEF idle, m
    <2> QED BY <1>2, <1>3
  <1> QED BY <1>1, <1>4 DEF Onward

(* A creation on its way from one step to the next.                        *)
Drafts ==
  [op : {"assign"}, at : {"task", "requirement", "rule"}, asks : SUBSET Requirements,
   wanted : SUBSET Rules, todo : SUBSET Staff, mail : BOOLEAN]

LEMMA OnwardGoes ==
  ASSUME NEW q \in Drafts, NEW p, p = Onward(q)
  PROVE  /\ p \in Creations /\ p # Idle
         /\ p.asks = q.asks /\ p.wanted = q.wanted /\ p.todo = q.todo /\ p.mail = q.mail
         /\ p.at = IF q.asks # {} THEN "requirement"
                   ELSE IF q.wanted # {} THEN "rule" ELSE "list"
  <1> DEFINE step == IF q.asks # {} THEN "requirement"
                     ELSE IF q.wanted # {} THEN "rule" ELSE "list"
  <1>1. p = [q EXCEPT !.at = step]
    BY OnwardFirst
  <1>2. step \in {"requirement", "rule", "list"}
    OBVIOUS
  <1> HIDE DEF step
  <1>3. /\ p \in Creations /\ p.op = "assign" /\ p.at = step
        /\ p.asks = q.asks /\ p.wanted = q.wanted /\ p.todo = q.todo /\ p.mail = q.mail
    BY <1>1, <1>2 DEF Drafts, Creations
  <1> QED BY <1>3 DEF step, Idle

LEMMA CreationShape ==
  ASSUME AssignmentsInv, NEW r \in Requests, req[r] # Idle
  PROVE  /\ req[r] \in Creations /\ state # "none"
         /\ \A x \in Requests \ {r} : req[x] = Idle
         /\ Creating(req[r])
  BY DEF AssignmentsInv, CreationTypes, OneCreation

LEMMA CreationMoves ==
  ASSUME AssignmentsInv, NEW r \in Requests, NEW p \in {Idle} \cup Creations,
         req' = [req EXCEPT ![r] = p], \A x \in Requests \ {r} : req[x] = Idle,
         Creating(p)', AssignmentsOK', state' # "none", rules' # {} => asked' = Requirements
  PROVE  AssignmentsInv' /\ req'[r] = p /\ \A x \in Requests \ {r} : req'[x] = Idle
  <1>1. /\ req' \in [Requests -> {Idle} \cup Creations]
        /\ req'[r] = p /\ \A x \in Requests \ {r} : req'[x] = Idle
    BY DEF AssignmentsInv, CreationTypes
  <1>2. \A x \in Requests : Creating(req[x])'
    BY <1>1 DEF Creating, Idle
  <1> QED BY <1>1, <1>2 DEF AssignmentsInv, CreationTypes, OneCreation

LEMMA CreateTaskStep ==
  ASSUME AssignmentsInv, NEW r \in Requests, NEW s \in {"active", "draft"},
         NEW w \in SUBSET Rules, CreateTask(r, s, w)
  PROVE  AssignmentsInv' /\ rules = {} /\ rules' = {} /\ state = "none" /\ mix' = mix
  <1> DEFINE q == [op |-> "assign", at |-> "task", asks |-> Requirements,
                   wanted |-> w, todo |-> {}, mail |-> s = "active"]
  <1>1. q \in Drafts /\ q.asks = Requirements
    BY DEF Drafts
  <1>2. /\ req' = [req EXCEPT ![r] = Onward(q)] /\ state = "none" /\ state' = s
        /\ UNCHANGED <<mix, asked, rules, members, told>>
    BY DEF CreateTask, Begin
  <1> HIDE DEF q
  <1>3. PICK p : p = Onward(q)
    OBVIOUS
  <1>4. /\ p \in Creations /\ p.asks = Requirements
        /\ p.at = "requirement" \/ (Requirements = {} /\ p.at \in {"rule", "list"})
    BY <1>1, <1>3, OnwardGoes
  <1>5. asked = {} /\ rules = {} /\ told = {} /\ \A x \in Requests : req[x] = Idle
    BY <1>2 DEF AssignmentsInv, CreationTypes, AssignmentsOK, OneCreation
  <1>6. AssignmentsOK'
    BY <1>2 DEF AssignmentsInv, CreationTypes, AssignmentsOK
  <1>7. Creating(p)'
    BY <1>2, <1>4, <1>5 DEF Creating
  <1> QED BY <1>2, <1>3, <1>4, <1>5, <1>6, <1>7, CreationMoves

(* A requirement, then a rule is inserted.                                 *)
LEMMA RequirementStep ==
  ASSUME AssignmentsInv, NEW r \in Requests, InsertRequirement(r)
  PROVE  /\ AssignmentsInv' /\ rules' = {} /\ mix' = mix
  <1>1. PICK a \in req[r].asks :
          /\ asked' = asked \cup {a}
          /\ req' = [req EXCEPT ![r] = Onward([req[r] EXCEPT !.asks = req[r].asks \ {a}])]
    BY DEF InsertRequirement
  <1>2. /\ At(r, "assign", "requirement") /\ req[r] # Idle
        /\ UNCHANGED <<mix, state, rules, members, told>>
    BY DEF InsertRequirement, At, Idle
  <1>3. /\ req[r] \in Creations /\ state # "none" /\ rules = {}
        /\ asked \cup req[r].asks = Requirements /\ req[r].asks \subseteq Requirements
        /\ \A x \in Requests \ {r} : req[x] = Idle
    BY <1>2, CreationShape DEF Creating, At, Creations
  <1> DEFINE q == [req[r] EXCEPT !.asks = req[r].asks \ {a}]
  <1>4. q \in Drafts /\ q.asks = req[r].asks \ {a}
    BY <1>2, <1>3 DEF Drafts, Creations, At
  <1> HIDE DEF q
  <1>5. PICK p : p = Onward(q)
    OBVIOUS
  <1>6. /\ p \in Creations /\ p.asks = req[r].asks \ {a}
        /\ IF p.asks # {} THEN p.at = "requirement" ELSE p.at \in {"rule", "list"}
    BY <1>4, <1>5, OnwardGoes
  <1>7. AssignmentsOK'
    BY <1>1, <1>2, <1>3 DEF AssignmentsInv, CreationTypes, AssignmentsOK
  <1>8. Creating(p)'
    BY <1>1, <1>2, <1>3, <1>6 DEF Creating
  <1>9. req' = [req EXCEPT ![r] = p]
    BY <1>1, <1>5 DEF q
  <1>10. AssignmentsInv'
    BY <1>2, <1>3, <1>6, <1>7, <1>8, <1>9, CreationMoves
  <1> QED BY <1>2, <1>3, <1>10

LEMMA RuleStep ==
  ASSUME AssignmentsInv, NEW r \in Requests, InsertRule(r)
  PROVE  /\ AssignmentsInv' /\ asked' = Requirements /\ UNCHANGED <<mix, told>>
         /\ req[r] # Idle /\ req[r].at = "rule" /\ req'[r] # Idle
         /\ req'[r].mail = req[r].mail /\ req'[r].at \in {"rule", "list"}
         /\ req'[r] # req[r] /\ \A x \in Requests \ {r} : req[x] = Idle
  <1>1. PICK w \in req[r].wanted :
          /\ rules' = rules \cup {w}
          /\ req' = [req EXCEPT ![r] = Onward([req[r] EXCEPT !.wanted = req[r].wanted \ {w}])]
    BY DEF InsertRule
  <1>2. /\ At(r, "assign", "rule") /\ req[r] # Idle
        /\ UNCHANGED <<mix, state, asked, members, told>>
    BY DEF InsertRule, At, Idle
  <1>3. /\ req[r] \in Creations /\ state # "none" /\ asked = Requirements /\ req[r].asks = {}
        /\ w \in Rules /\ \A x \in Requests \ {r} : req[x] = Idle
    BY <1>2, CreationShape DEF Creating, At, Creations
  <1> DEFINE q == [req[r] EXCEPT !.wanted = req[r].wanted \ {w}]
  <1>4. /\ q \in Drafts /\ q.asks = {} /\ q.mail = req[r].mail
        /\ q.wanted = req[r].wanted \ {w}
    BY <1>2, <1>3 DEF Drafts, Creations, At
  <1> HIDE DEF q
  <1>5. PICK p : p = Onward(q)
    OBVIOUS
  <1>6. /\ p \in Creations /\ p.asks = {} /\ p.at \in {"rule", "list"} /\ p # Idle
        /\ p.mail = req[r].mail /\ p.wanted = req[r].wanted \ {w}
    BY <1>4, <1>5, OnwardGoes
  <1>7. AssignmentsOK'
    BY <1>1, <1>2, <1>3 DEF AssignmentsInv, CreationTypes, AssignmentsOK
  <1>8. Creating(p)'
    BY <1>2, <1>3, <1>6 DEF Creating
  <1>9. req' = [req EXCEPT ![r] = p]
    BY <1>1, <1>5 DEF q
  <1>10. AssignmentsInv' /\ req'[r] = p
    BY <1>2, <1>3, <1>6, <1>7, <1>8, <1>9, CreationMoves
  <1>11. p # req[r]
    BY <1>1, <1>6
  <1> QED BY <1>2, <1>3, <1>6, <1>10, <1>11 DEF At

LEMMA ContactsStep ==
  ASSUME AssignmentsInv, NEW r \in Requests, ListContacts(r)
  PROVE  /\ AssignmentsInv' /\ asked = Requirements /\ UNCHANGED <<mix, assignmentVars>>
         /\ req[r] # Idle /\ req[r].at = "list" /\ req'[r] # req[r]
         /\ \A x \in Requests \ {r} : req[x] = Idle
         /\ \/ ~req[r].mail
            \/ \A u \in Staff : ~Assigned(u)
            \/ /\ req'[r].at = "notify"
               /\ \A u \in Staff : Assigned(u) => u \in req'[r].todo
  <1> DEFINE contacts == {u \in Staff : Assigned(u)}
  <1>1. /\ At(r, "assign", "list") /\ req[r] # Idle /\ UNCHANGED <<mix, assignmentVars>>
    BY DEF ListContacts, At, Idle
  <1>2. /\ req[r] \in Creations /\ state # "none" /\ asked = Requirements /\ req[r].asks = {}
        /\ \A x \in Requests \ {r} : req[x] = Idle /\ req[r].at = "list"
    BY <1>1, CreationShape DEF Creating, At
  <1>3. AssignmentsOK' /\ state' # "none" /\ asked' = Requirements
    BY <1>1, <1>2 DEF AssignmentsInv, CreationTypes, AssignmentsOK, assignmentVars
  <1>4. CASE Done(r) /\ (~req[r].mail \/ contacts = {})
    <2>1. Creating(Idle)'
      BY DEF Creating, Idle
    <2>2. AssignmentsInv' /\ req'[r] = Idle
      BY <1>2, <1>3, <1>4, <2>1, CreationMoves DEF Done
    <2> QED BY <1>1, <1>2, <1>4, <2>2 DEF At
  <1>5. CASE req' = [req EXCEPT ![r].at = "notify", ![r].todo = contacts]
    <2>0. PICK p : p = [[req[r] EXCEPT !.at = "notify"] EXCEPT !.todo = contacts]
      OBVIOUS
    <2>1. p \in Creations /\ p.at = "notify" /\ p.todo = contacts /\ p.asks = {}
      BY <1>2, <2>0 DEF Creations
    <2>2. req' = [req EXCEPT ![r] = p]
      BY <1>5, <2>0
    <2>3. Creating(p)'
      BY <1>3, <2>1 DEF Creating
    <2>4. AssignmentsInv' /\ req'[r] = p
      BY <1>2, <1>3, <2>1, <2>2, <2>3, CreationMoves
    <2> QED BY <1>1, <1>2, <2>1, <2>4 DEF At
  <1> QED BY <1>4, <1>5 DEF ListContacts

LEMMA NotifyStep ==
  ASSUME AssignmentsInv, NEW r \in Requests, NotifyTaskAssigned(r)
  PROVE  /\ AssignmentsInv' /\ asked = Requirements
         /\ UNCHANGED <<mix, state, asked, rules, members>>
         /\ req[r] # Idle /\ req[r].at = "notify"
         /\ \A x \in Requests \ {r} : req[x] = Idle
         /\ \E u \in req[r].todo :
              /\ told' = told \cup {u}
              /\ \/ req[r].todo = {u}
                 \/ req'[r].at = "notify" /\ req'[r].todo = req[r].todo \ {u}
  <1>1. PICK u \in req[r].todo :
          /\ told' = told \cup {u}
          /\ IF req[r].todo = {u} THEN Done(r)
             ELSE req' = [req EXCEPT ![r].todo = req[r].todo \ {u}]
    BY DEF NotifyTaskAssigned
  <1>2. /\ At(r, "assign", "notify") /\ req[r] # Idle
        /\ UNCHANGED <<mix, state, asked, rules, members>>
    BY DEF NotifyTaskAssigned, At, Idle
  <1>3. /\ req[r] \in Creations /\ state # "none" /\ asked = Requirements /\ req[r].asks = {}
        /\ \A x \in Requests \ {r} : req[x] = Idle
        /\ req[r].at = "notify" /\ req[r].todo \subseteq Staff
    BY <1>2, CreationShape DEF Creating, At, Creations
  <1>4. AssignmentsOK' /\ state' # "none" /\ asked' = Requirements
    BY <1>1, <1>2, <1>3 DEF AssignmentsInv, CreationTypes, AssignmentsOK
  <1>5. CASE Done(r) /\ req[r].todo = {u}
    <2>1. Creating(Idle)'
      BY DEF Creating, Idle
    <2>2. AssignmentsInv'
      BY <1>3, <1>4, <1>5, <2>1, CreationMoves DEF Done
    <2> QED BY <1>1, <1>2, <1>3, <1>5, <2>2
  <1>6. CASE req' = [req EXCEPT ![r].todo = req[r].todo \ {u}]
    <2>0. PICK p : p = [req[r] EXCEPT !.todo = req[r].todo \ {u}]
      OBVIOUS
    <2>1. p \in Creations /\ p.at = "notify" /\ p.todo = req[r].todo \ {u} /\ p.asks = {}
      BY <1>3, <2>0 DEF Creations
    <2>2. req' = [req EXCEPT ![r] = p]
      BY <1>6, <2>0
    <2>3. Creating(p)'
      BY <1>4, <2>1 DEF Creating
    <2>4. AssignmentsInv' /\ req'[r] = p
      BY <1>3, <1>4, <2>1, <2>2, <2>3, CreationMoves
    <2> QED BY <1>1, <1>2, <1>3, <2>1, <2>4
  <1> QED BY <1>1, <1>5, <1>6

LEMMA AssignmentsOtherStep ==
  ASSUME AssignmentsInv,
         \/ \E r \in Requests : Abandon(r) /\ UNCHANGED assignmentVars
         \/ Archive \/ Unarchive \/ \E u \in Staff : Move(u)
         \/ UNCHANGED <<mix, req, assignmentVars>>
  PROVE  AssignmentsInv' /\ mix' = mix
  <1>1. ASSUME NEW r \in Requests, Abandon(r), UNCHANGED assignmentVars
        PROVE  AssignmentsInv' /\ mix' = mix
    <2>1. req[r] # Idle /\ Done(r) /\ mix' = mix
      BY <1>1 DEF Abandon
    <2>2. AssignmentsOK' /\ UNCHANGED <<state, asked, rules>>
      BY <1>1 DEF AssignmentsInv, CreationTypes, AssignmentsOK, assignmentVars
    <2>3. Creating(Idle)' /\ (rules' # {} => asked' = Requirements)
      BY <2>2 DEF Creating, Idle, AssignmentsInv, OneCreation
    <2> QED BY <2>1, <2>2, <2>3, CreationShape, CreationMoves DEF Done
  <1>2. CASE Archive \/ Unarchive \/ (\E u \in Staff : Move(u))
               \/ UNCHANGED <<mix, req, assignmentVars>>
    <2>1. /\ UNCHANGED <<mix, req, asked, rules, told>> /\ AssignmentsOK'
          /\ state' = "none" => state = "none"
      BY <1>2 DEF Archive, Unarchive, Move, assignmentVars, AssignmentsInv, CreationTypes,
                  AssignmentsOK
    <2> QED BY <2>1 DEF AssignmentsInv, CreationTypes, OneCreation, Creating
  <1> QED BY <1>1, <1>2

LEMMA AssignmentsStay ==
  ASSUME AssignmentsInv, [AssignmentsNext]_<<mix, req, assignmentVars>>
  PROVE  AssignmentsInv' /\ mix' = mix
  BY CreateTaskStep, RequirementStep, RuleStep, ContactsStep, NotifyStep, AssignmentsOtherStep
  DEF AssignmentsNext

(* What a step is by which an assignee finds the task unready.             *)
UnreadyBy(u) ==
  \/ u \notin members /\ u \in members'
  \/ state # "active"
  \/ \E r \in Requests :
       /\ Moves(r)
       /\ ~req[r].mail \/ (req'[r] = Idle /\ u \notin told')

LEMMA UnreadyStep ==
  ASSUME AssignmentsInv, AssignmentsNext, NEW u \in Staff, ~Unready(u), Unready(u)'
  PROVE  UnreadyBy(u)
  <1>1. Assigned(u)' /\ rules' # {} /\ state' = "active"
    BY DEF Unready, Assigned
  <1>2. asked' = Requirements
    BY <1>1, AssignmentsStay DEF AssignmentsInv, OneCreation
  <1>3. u \notin told' /\ \A r \in Requests : ~Tells(r, u)'
    BY <1>2 DEF Unready
  <1>4. ASSUME NEW r \in Requests, InsertRule(r) PROVE UnreadyBy(u)
    <2>1. Moves(r) /\ ~req'[r].mail
      BY <1>3, <1>4, RuleStep DEF Moves, Tells
    <2> QED BY <1>4, <2>1, RuleStep DEF UnreadyBy
  <1>5. ASSUME NEW r \in Requests, ListContacts(r) PROVE UnreadyBy(u)
    <2>1. Assigned(u)
      BY <1>1, <1>5, ContactsStep DEF Assigned, assignmentVars
    <2>2. Moves(r) /\ ~req[r].mail
      BY <1>3, <1>5, <2>1, ContactsStep DEF Moves, Tells
    <2> QED BY <2>2 DEF UnreadyBy
  <1>6. ASSUME NEW r \in Requests, NotifyTaskAssigned(r) PROVE FALSE
    <2>1. Assigned(u) /\ state = "active" /\ asked = Requirements
      BY <1>1, <1>6, NotifyStep DEF Assigned
    <2>2. PICK v \in req[r].todo : /\ told' = told \cup {v}
                                   /\ \/ req[r].todo = {v}
                                      \/ /\ req'[r].at = "notify"
                                         /\ req'[r].todo = req[r].todo \ {v}
      BY <1>6, NotifyStep
    <2>3. \E q \in Requests : Tells(q, u)
      BY <1>3, <2>1, <2>2 DEF Unready
    <2>4. Tells(r, u)
      BY <1>6, <2>3, NotifyStep DEF Tells, Idle
    <2>5. u \in req[r].todo /\ u # v
      BY <1>3, <1>6, <2>2, <2>4, NotifyStep DEF Tells
    <2>6. Tells(r, u)'
      BY <2>2, <2>5 DEF Tells
    <2> QED BY <1>3, <2>6
  <1>7. ASSUME NEW r \in Requests, Abandon(r) PROVE UnreadyBy(u)
    <2>1. req'[r] = Idle /\ Moves(r)
      BY <1>7 DEF AssignmentsInv, CreationTypes, Abandon, Done, Moves
    <2> QED BY <1>3, <2>1 DEF UnreadyBy
  <1>8. Archive => FALSE
    BY <1>1 DEF Archive
  <1>9. Unarchive => UnreadyBy(u)
    BY DEF Unarchive, UnreadyBy
  <1>10. ASSUME NEW v \in Staff, Move(v) PROVE UnreadyBy(u)
    <2>1. UNCHANGED <<req, state, asked, rules, told>>
      BY <1>10 DEF Move
    <2>2. ~Assigned(u)
      BY <1>1, <1>3, <2>1 DEF Unready, Tells
    <2> QED BY <1>1, <2>1, <2>2 DEF Assigned, UnreadyBy
  <1>11. ASSUME NEW r \in Requests, InsertRequirement(r) PROVE FALSE
    BY <1>1, <1>11, RequirementStep
  <1>12. ASSUME NEW r \in Requests, NEW s \in {"active", "draft"}, NEW w \in SUBSET Rules,
                CreateTask(r, s, w)
         PROVE  FALSE
    BY <1>1, <1>12, CreateTaskStep
  <1> QED BY <1>4, <1>5, <1>6, <1>7, <1>8, <1>9, <1>10, <1>11, <1>12 DEF AssignmentsNext

(* An assignee finds the task before it is all there, or without being     *)
(* told, only after a move, from a draft or the archive, or when the       *)
(* request that created the task stopped half way (task/store.go:53).      *)
THEOREM ReadyUnless == AssignmentsSpec => UnreadyOnlyBy
  <1>1. ASSUME AssignmentsInv, [AssignmentsNext]_<<mix, req, assignmentVars>>
        PROVE  [\A u \in Staff :
                  ~Unready(u) /\ Unready(u)' =>
                    \/ u \notin members /\ u \in members'
                    \/ state # "active"
                    \/ \E r \in Requests :
                         /\ Moves(r)
                         /\ ~req[r].mail \/ (req'[r] = Idle /\ u \notin told')]_<<mix, req, assignmentVars>>
    BY <1>1, UnreadyStep DEF UnreadyBy
  <1> QED BY <1>1, AssignmentsStart, AssignmentsStay, PTL DEF AssignmentsSpec, UnreadyOnlyBy
=============================================================================
