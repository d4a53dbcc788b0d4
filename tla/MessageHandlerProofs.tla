------------------------ MODULE MessageHandlerProofs ------------------------
(***************************************************************************)
(* Proofs about MessageHandler: no change is overlooked, and the bulk      *)
(* handlers agree with the changes, whatever the tables hold.              *)
(*                                                                         *)
(* The argument is about the registry: for each of the four tables, the    *)
(* fields that a builder or the filter reads are watched for its type.     *)
(***************************************************************************)
EXTENDS MessageHandler, TLAPS

\* What the filter lets pass: everything that the API is to know.
LEMMA DueIsNotFiltered ==
    ASSUME NEW s, NEW types, NEW t \in types, Due(t, s) # {}
    PROVE  t \in Filtered(s, types)
BY DEF Due, Filtered, Admitted

\* The types of all watched fields of a table.
LEMMA TypesOfTables ==
    /\ AffectedTypes("ctercero", WatchedFields("ctercero")) = Partner
    /\ AffectedTypes("gproveed", WatchedFields("gproveed")) = Partner
    /\ AffectedTypes("cterdire", WatchedFields("cterdire")) = {"contact"}
    /\ AffectedTypes("gvenacuh", WatchedFields("gvenacuh")) = {"agreement"}
BY DEF AffectedTypes, WatchedFields, FieldToPayloads, Partner

\* What is due depends on the tables that the builder reads, and no others.
LEMMA DueReads ==
    ASSUME NEW s, NEW q
    PROVE  /\ s["ctercero"] = q["ctercero"] /\ s["gproveed"] = q["gproveed"]
              => Due("supplier", s) = Due("supplier", q)
           /\ /\ s["ctercero"] = q["ctercero"] /\ s["gproveed"] = q["gproveed"]
              /\ s["cterdire"] = q["cterdire"]
              => Due("contact", s) = Due("contact", q)
           /\ s["gvenacuh"] = q["gvenacuh"] => Due("agreement", s) = Due("agreement", q)
<1>1. ASSUME s["ctercero"] = q["ctercero"], s["gproveed"] = q["gproveed"]
      PROVE  Due("supplier", s) = Due("supplier", q)
  <2>1. Admitted("supplier", s) <=> Admitted("supplier", q)
    BY <1>1 DEF Admitted
  <2>2. Suppliers(s) = Suppliers(q)
    BY <1>1 DEF Suppliers
  <2> QED
    BY <2>1, <2>2 DEF Due, Build
<1>2. ASSUME s["ctercero"] = q["ctercero"], s["gproveed"] = q["gproveed"],
             s["cterdire"] = q["cterdire"]
      PROVE  Due("contact", s) = Due("contact", q)
  <2>1. Admitted("contact", s) <=> Admitted("contact", q)
    BY <1>2 DEF Admitted
  <2>2. Contacts(s) = Contacts(q)
    BY <1>2 DEF Contacts
  <2> QED
    BY <2>1, <2>2 DEF Due, Build
<1>3. ASSUME s["gvenacuh"] = q["gvenacuh"]
      PROVE  Due("agreement", s) = Due("agreement", q)
  BY <1>3 DEF Due, Build, Agreements, CodareExempt
<1> QED
  BY <1>1, <1>2, <1>3

\* A type that no field of the table concerns does not depend on the table.
LEMMA OtherTables ==
    ASSUME NEW s, NEW q, NEW table \in Tables,
           \A other \in Tables : other # table => q[other] = s[other],
           NEW t \in PayloadTypes,
           t \notin AffectedTypes(table, WatchedFields(table))
    PROVE  Due(t, q) = Due(t, s)
<1>1. CASE table = "cterdire"
  BY <1>1, TypesOfTables, DueReads DEF PayloadTypes, Tables, SingleTables
<1>2. CASE table = "gvenacuh"
  BY <1>2, TypesOfTables, DueReads DEF PayloadTypes, Tables, SingleTables
<1>3. CASE table \in SingleTables
  <2>1. t = "agreement"
    BY <1>3, TypesOfTables DEF PayloadTypes, SingleTables, Partner
  <2> QED
    BY <1>3, <2>1, DueReads DEF Tables, SingleTables
<1> QED
  BY <1>1, <1>2, <1>3 DEF Tables

\* Equal texts in the fields watched for a type make equal items.
LEMMA CterceroTexts ==
    ASSUME NEW b, NEW a, b["nombre"].text = a["nombre"].text, b["cif"].text = a["cif"].text
    PROVE  \A g, d : /\ SupplierItem(b, g) = SupplierItem(a, g)
                     /\ ContactItem(b, g, d) = ContactItem(a, g, d)
BY DEF SupplierItem, ContactItem, TextOf, TrimOrNull

LEMMA StatusText ==
    ASSUME NEW b, NEW a, b["fecbaj"].text = a["fecbaj"].text
    PROVE  \A c, d : ContactItem(c, b, d) = ContactItem(c, a, d)
BY DEF ContactItem, IsActive

LEMMA GproveedTexts ==
    ASSUME NEW b, NEW a, b["fecalt"].text = a["fecalt"].text, b["fecbaj"].text = a["fecbaj"].text
    PROVE  \A c : SupplierItem(c, b) = SupplierItem(c, a)
BY DEF SupplierItem, IsActive, FormatDate, TrimOrNull

LEMMA CterdireTexts ==
    ASSUME NEW b, NEW a, \A f \in WatchedFields("cterdire") : b[f].text = a[f].text
    PROVE  \A c, g : ContactItem(c, g, b) = ContactItem(c, g, a)
BY DEF ContactItem, WatchedFields, FieldToPayloads, TrimOrNull, ToISO2

LEMMA GvenacuhTexts ==
    ASSUME NEW b, NEW a, \A f \in WatchedFields("gvenacuh") : b[f].text = a[f].text,
           ~b["indmod"].pad, ~a["indmod"].pad
    PROVE  AgreementItem(b) = AgreementItem(a)
BY DEF AgreementItem, WatchedFields, FieldToPayloads, TextOf, TrimOrNull, FormatDate,
   DelayDays, Updatable

\* A row is replaced by one that differs in no field watched for the type.
LEMMA ReplacedRow ==
    ASSUME NEW s, NEW q, NEW table \in Tables, NEW b \in s[table], NEW a,
           \A other \in Tables : other # table => q[other] = s[other],
           q[table] = (s[table] \ {b}) \cup {a},
           table = "gvenacuh" => ~b["indmod"].pad /\ ~a["indmod"].pad,
           NEW t \in PayloadTypes,
           t \notin AffectedTypes(table, ChangedFields(table, "u", b, a))
    PROVE  Due(t, q) = Due(t, s)
<1>1. \A f \in WatchedFields(table) :
          t \in FieldToPayloads[table][f] => b[f].text = a[f].text
  <2> SUFFICES ASSUME NEW f \in WatchedFields(table), t \in FieldToPayloads[table][f],
                      b[f].text # a[f].text
               PROVE  FALSE
    OBVIOUS
  <2>1. f \in ChangedFields(table, "u", b, a)
    BY DEF ChangedFields
  <2> QED
    BY <2>1 DEF AffectedTypes
<1>2. \A other \in Tables : other # table => q[other] = s[other]
  OBVIOUS
<1>3. q[table] = (s[table] \ {b}) \cup {a}
  OBVIOUS
<1>4. CASE t \notin AffectedTypes(table, WatchedFields(table))
  BY <1>2, <1>4, OtherTables
<1>5. CASE table = "gvenacuh" /\ t = "agreement"
  <2>1. AgreementItem(b) = AgreementItem(a)
    <3>1. \A f \in WatchedFields("gvenacuh") : t \in FieldToPayloads["gvenacuh"][f]
      BY <1>5 DEF WatchedFields, FieldToPayloads
    <3> QED
      BY <3>1, <1>1, <1>5, GvenacuhTexts
  <2>2. Agreements(q) = Agreements(s)
    BY <1>3, <1>5, <2>1 DEF Agreements
  <2> QED
    BY <1>5, <2>2 DEF Due, Build, CodareExempt
<1>6. CASE table = "cterdire" /\ t = "contact"
  <2>1. \A c, g : ContactItem(c, g, b) = ContactItem(c, g, a)
    <3>1. \A f \in WatchedFields("cterdire") : t \in FieldToPayloads["cterdire"][f]
      BY <1>6 DEF WatchedFields, FieldToPayloads
    <3> QED
      BY <3>1, <1>1, <1>6, CterdireTexts
  <2>2. q["ctercero"] = s["ctercero"] /\ q["gproveed"] = s["gproveed"]
    BY <1>2, <1>6 DEF Tables, SingleTables
  <2>3. Contacts(q) = Contacts(s)
    BY <1>3, <1>6, <2>1, <2>2 DEF Contacts
  <2>4. Admitted("contact", q) <=> Admitted("contact", s)
    BY <2>2 DEF Admitted
  <2> QED
    BY <1>6, <2>3, <2>4 DEF Due, Build
<1>7. CASE table = "gproveed" /\ t \in Partner
  <2>1. q["ctercero"] = s["ctercero"] /\ q["cterdire"] = s["cterdire"]
    BY <1>2, <1>7 DEF Tables, SingleTables
  <2>2. Admitted(t, q) <=> Admitted(t, s)
    BY <2>1 DEF Admitted
  <2>3. b["fecbaj"].text = a["fecbaj"].text
    BY <1>1, <1>7 DEF WatchedFields, FieldToPayloads, Partner
  <2>4. CASE t = "supplier"
    <3>1. b["fecalt"].text = a["fecalt"].text
      BY <1>1, <1>7, <2>4 DEF WatchedFields, FieldToPayloads
    <3>2. \A c : SupplierItem(c, b) = SupplierItem(c, a)
      BY <2>3, <3>1, GproveedTexts
    <3>3. Suppliers(q) = Suppliers(s)
      BY <1>3, <1>7, <2>1, <3>2 DEF Suppliers
    <3> QED
      BY <2>2, <2>4, <3>3 DEF Due, Build
  <2>5. CASE t = "contact"
    <3>1. \A c, d : ContactItem(c, b, d) = ContactItem(c, a, d)
      BY <2>3, StatusText
    <3>2. Contacts(q) = Contacts(s)
      BY <1>3, <1>7, <2>1, <3>1 DEF Contacts
    <3> QED
      BY <2>2, <2>5, <3>2 DEF Due, Build
  <2> QED
    BY <1>7, <2>4, <2>5 DEF Partner
<1>8. CASE table = "ctercero" /\ t \in Partner
  <2>1. q["gproveed"] = s["gproveed"] /\ q["cterdire"] = s["cterdire"]
    BY <1>2, <1>8 DEF Tables, SingleTables
  <2>2. /\ b["nombre"].text = a["nombre"].text /\ b["cif"].text = a["cif"].text
        /\ b["codare"].text = a["codare"].text
    BY <1>1, <1>8 DEF WatchedFields, FieldToPayloads, Partner
  <2>3. GetAllowedTypes(b["codare"]) = GetAllowedTypes(a["codare"])
    BY <2>2 DEF GetAllowedTypes
  <2>4. Admitted(t, q) <=> Admitted(t, s)
    BY <1>3, <1>8, <2>3 DEF Admitted
  <2>5. \A g, d : /\ SupplierItem(b, g) = SupplierItem(a, g)
                  /\ ContactItem(b, g, d) = ContactItem(a, g, d)
    BY <2>2, CterceroTexts
  <2>6. Suppliers(q) = Suppliers(s)
    BY <1>3, <1>8, <2>1, <2>5 DEF Suppliers
  <2>7. Contacts(q) = Contacts(s)
    BY <1>3, <1>8, <2>1, <2>5 DEF Contacts
  <2> QED
    BY <1>8, <2>4, <2>6, <2>7 DEF Due, Build, Partner
<1> QED
  BY <1>4, <1>5, <1>6, <1>7, <1>8, TypesOfTables DEF Tables, SingleTables, PayloadTypes,
     Partner

-----------------------------------------------------------------------------
\* An event that brings, takes or replaces a row of its table.
IsEvent(table, op, before, after) ==
    /\ op \in {"c", "r", "u", "d"}
    /\ before \in Contents[table] /\ after \in Contents[table]
    /\ op = "u" => before \in store[table]

LEMMA NextIsEvent ==
    ASSUME TypeOK, NEW table \in Tables,
           Insert(table) \/ Read(table) \/ Update(table) \/ Delete(table)
    PROVE  \E op, before, after : /\ IsEvent(table, op, before, after)
                                 /\ Handle(table, op, before, after)
<1>1. store[table] \subseteq Contents[table]
  BY DEF TypeOK
<1>2. CASE Insert(table)
  BY <1>2 DEF Insert, IsEvent
<1>3. CASE Read(table)
  BY <1>1, <1>3 DEF Read, IsEvent
<1>4. CASE Update(table)
  BY <1>1, <1>4 DEF Update, IsEvent
<1>5. CASE Delete(table)
  BY <1>1, <1>5 DEF Delete, IsEvent
<1> QED
  BY <1>2, <1>3, <1>4, <1>5

\* The store after an event, in the tables' terms.
LEMMA UpdatedStore ==
    ASSUME TypeOK, NEW table \in Tables, NEW op, NEW before, NEW after,
           IsEvent(table, op, before, after), Handle(table, op, before, after)
    PROVE  /\ DOMAIN store' = Tables
           /\ \A other \in Tables : other # table => store'[other] = store[other]
           /\ op = "u" => store'[table] = (store[table] \ {before}) \cup {after}
           /\ store'[table] \subseteq store[table] \cup {after}
           /\ table \in SingleTables =>
                store'[table] \subseteq store[table] \/ store'[table] = {after}
<1>1. DOMAIN store = Tables
  BY DEF TypeOK
<1>2. PICK new : /\ store' = [store EXCEPT ![table] = new]
                 /\ op = "u" => new = (store[table] \ {before}) \cup {after}
                 /\ new \subseteq store[table] \cup {after}
                 /\ table \in SingleTables => new \subseteq store[table] \/ new = {after}
  <2>1. table \in SingleTables /\ op = "u" =>
          (store[table] \ {before}) \cup {after} = {after}
    BY DEF TypeOK, IsEvent
  <2>2. store' = Updated(store, table, op, before, after)
    BY DEF Handle
  <2>3. CASE op = "d"
    BY <2>2, <2>3 DEF Updated
  <2>4. CASE op # "d" /\ table \in SingleTables
    BY <2>1, <2>2, <2>4 DEF Updated
  <2>5. CASE op = "u" /\ table \notin SingleTables
    BY <2>2, <2>5 DEF Updated
  <2>6. CASE op \in {"c", "r"} /\ table \notin SingleTables
    <3>1. CASE \E r \in store[table] : RecordsMatch(r, after)
      BY <2>2, <2>6, <3>1 DEF Updated
    <3>2. CASE ~\E r \in store[table] : RecordsMatch(r, after)
      BY <2>2, <2>6, <3>2 DEF Updated
    <3> QED
      BY <3>1, <3>2
  <2> QED
    BY <2>3, <2>4, <2>5, <2>6 DEF IsEvent
<1> QED
  BY <1>1, <1>2

LEMMA EventIsTyped ==
    ASSUME TypeOK, NEW table \in Tables, NEW op, NEW before, NEW after,
           IsEvent(table, op, before, after), Handle(table, op, before, after)
    PROVE  TypeOK'
<1>1. \A other \in Tables : store'[other] \subseteq Contents[other]
  BY UpdatedStore DEF TypeOK, IsEvent
<1>2. store' \in [Tables -> SUBSET UNION {Contents[other] : other \in Tables}]
  <2>1. store' = [other \in DOMAIN store' |-> store'[other]]
    BY DEF Handle, Updated
  <2> QED
    BY <1>1, <2>1, UpdatedStore
<1>3. ASSUME NEW single \in SingleTables
      PROVE  \A r, q \in store'[single] : r = q
  <2>1. CASE single # table
    <3>1. store'[single] = store[single]
      BY <2>1, UpdatedStore DEF Tables
    <3> QED
      BY <3>1 DEF TypeOK
  <2>2. CASE single = table
    <3>1. store'[single] \subseteq store[single] \/ store'[single] = {after}
      BY <2>2, UpdatedStore
    <3> QED
      BY <3>1 DEF TypeOK
  <2> QED
    BY <2>1, <2>2
<1>4. wanted' \subseteq PayloadTypes
  <2>1. \A f \in WatchedFields(table) : FieldToPayloads[table][f] \subseteq PayloadTypes
    BY DEF FieldToPayloads, WatchedFields, PayloadTypes, Partner, Tables, SingleTables
  <2>2. ChangedFields(table, op, before, after) \subseteq WatchedFields(table)
    BY DEF ChangedFields
  <2>3. AffectedTypes(table, ChangedFields(table, op, before, after)) \subseteq PayloadTypes
    BY <2>1, <2>2 DEF AffectedTypes
  <2> QED
    BY <2>3 DEF Handle, TypeOK, Filtered
<1>5. upToDate' \subseteq PayloadTypes
  <2>1. upToDate' \subseteq upToDate
    BY DEF Handle
  <2> QED
    BY <2>1 DEF TypeOK
<1> QED
  BY <1>1, <1>2, <1>3, <1>4, <1>5 DEF TypeOK

\* The heart of the matter: an event that changes what is due enqueues the type.
LEMMA ChangeIsEnqueued ==
    ASSUME TypeOK, NEW table \in Tables, NEW op, NEW before, NEW after,
           IsEvent(table, op, before, after), Handle(table, op, before, after),
           NEW t \in PayloadTypes, Due(t, store') # Due(t, store), Due(t, store') # {}
    PROVE  t \in wanted'
<1> DEFINE types == AffectedTypes(table, ChangedFields(table, op, before, after))
<1>1. t \in types
  <2>1. CASE op # "u"
    <3>1. types = AffectedTypes(table, WatchedFields(table))
      BY <2>1 DEF ChangedFields
    <3> QED
      BY <3>1, UpdatedStore, OtherTables
  <2>2. CASE op = "u"
    <3>1. table = "gvenacuh" => ~before["indmod"].pad /\ ~after["indmod"].pad
      BY HandlerAssumption DEF HandlerAssumption, IsEvent
    <3>2. before \in store[table]
      BY <2>2 DEF IsEvent
    <3>3. /\ \A other \in Tables : other # table => store'[other] = store[other]
          /\ store'[table] = (store[table] \ {before}) \cup {after}
      BY <2>2, UpdatedStore
    <3>4. types = AffectedTypes(table, ChangedFields(table, "u", before, after))
      BY <2>2
    <3> HIDE DEF types
    <3> QED
      BY <3>1, <3>2, <3>3, <3>4, ReplacedRow
  <2> QED
    BY <2>1, <2>2
<1>2. t \in Filtered(store', types)
  BY <1>1, DueIsNotFiltered
<1> QED
  BY <1>2 DEF Handle

IInv == TypeOK /\ ChangesAreWanted

LEMMA InitIInv == Init => IInv
<1> SUFFICES ASSUME Init
             PROVE  IInv
  OBVIOUS
<1>1. TypeOK
  BY DEF Init, TypeOK, Tables, SingleTables
<1>2. \A t \in PayloadTypes : Due(t, store) = {}
  <2>1. store["ctercero"] = {} /\ store["gvenacuh"] = {}
    BY DEF Init, Tables, SingleTables
  <2> QED
    BY <2>1 DEF Due, Admitted, Build, Agreements, PayloadTypes, CodareExempt
<1> QED
  BY <1>1, <1>2 DEF IInv, ChangesAreWanted

LEMMA NextIInv ==
    ASSUME IInv, [Next]_vars
    PROVE  IInv'
<1>1. ASSUME NEW table \in Tables,
             Insert(table) \/ Read(table) \/ Update(table) \/ Delete(table)
      PROVE  IInv'
  <2>1. PICK op, before, after : /\ IsEvent(table, op, before, after)
                                 /\ Handle(table, op, before, after)
    BY <1>1, NextIsEvent DEF IInv
  <2>2. TypeOK'
    BY <2>1, EventIsTyped DEF IInv
  <2>3. ASSUME NEW t \in PayloadTypes, Due(t, store') # {}
        PROVE  t \in wanted' \cup upToDate'
    <3>1. CASE Due(t, store') # Due(t, store)
      BY <2>1, <2>2, <2>3, <3>1, ChangeIsEnqueued DEF IInv, TypeOK
    <3>2. CASE Due(t, store') = Due(t, store)
      <4>1. wanted \subseteq wanted' /\ (t \in upToDate => t \in upToDate')
        BY <2>1, <3>2 DEF Handle
      <4>2. t \in wanted \cup upToDate
        BY <2>3, <3>2 DEF IInv, ChangesAreWanted
      <4> QED
        BY <4>1, <4>2
    <3> QED
      BY <3>1, <3>2
  <2> QED
    BY <2>2, <2>3 DEF IInv, ChangesAreWanted
<1>2. ASSUME NEW type \in PayloadTypes, Send(type)
      PROVE  IInv'
  <2>1. Due(type, store) # {} => Build(type, store) = Due(type, store)
    BY DEF Due
  <2> QED
    BY <1>2, <2>1 DEF Send, IInv, TypeOK, ChangesAreWanted
<1>3. ASSUME NEW type \in PayloadTypes, GiveUp(type)
      PROVE  IInv'
  <2>1. Due(type, store) = {}
    BY <1>3 DEF GiveUp, Due
  <2> QED
    BY <1>3, <2>1 DEF GiveUp, IInv, TypeOK, ChangesAreWanted
<1>4. CASE UNCHANGED vars
  BY <1>4 DEF vars, IInv, TypeOK, ChangesAreWanted
<1> QED
  BY <1>1, <1>2, <1>3, <1>4 DEF Next

\* The types, and one row at most in a single_store table, for whatever the tables hold.
THEOREM TypeCorrect == Spec => []TypeOK
<1>1. IInv => TypeOK
  BY DEF IInv
<1> QED
  BY <1>1, InitIInv, NextIInv, PTL DEF Spec

\* No change is overlooked, in any order of events and whatever the tables hold.
THEOREM NothingOverlooked == Spec => []ChangesAreWanted
<1>1. IInv => ChangesAreWanted
  BY DEF IInv
<1> QED
  BY <1>1, InitIInv, NextIInv, PTL DEF Spec

-----------------------------------------------------------------------------
\* What makes the sets of items empty.
LEMMA WhenNull ==
    ASSUME NEW s
    PROVE  /\ Suppliers(s) = {} <=> s["ctercero"] = {} \/ s["gproveed"] = {}
           /\ Contacts(s) = {} <=>
                s["ctercero"] = {} \/ s["gproveed"] = {} \/ s["cterdire"] = {}
           /\ Agreements(s) = {} <=> s["gvenacuh"] = {}
<1>1. Suppliers(s) = {} <=> s["ctercero"] = {} \/ s["gproveed"] = {}
  BY DEF Suppliers
<1>2. Contacts(s) = {} <=> s["ctercero"] = {} \/ s["gproveed"] = {} \/ s["cterdire"] = {}
  <2>1. ASSUME NEW c \in s["ctercero"], NEW g \in s["gproveed"], NEW d \in s["cterdire"]
        PROVE  ContactItem(c, g, d) \in Contacts(s)
    BY DEF Contacts
  <2>2. ASSUME NEW item \in Contacts(s)
        PROVE  s["ctercero"] # {} /\ s["gproveed"] # {} /\ s["cterdire"] # {}
    BY DEF Contacts
  <2> QED
    BY <2>1, <2>2
<1>3. Agreements(s) = {} <=> s["gvenacuh"] = {}
  BY DEF Agreements
<1> QED
  BY <1>1, <1>2, <1>3

LEMMA SyncAgrees == ChangesAreWanted => SyncMatchesChanges
<1> SUFFICES ASSUME ChangesAreWanted, NEW t \in PayloadTypes
             PROVE  /\ SyncAll(t, store).items = Due(t, store)
                    /\ SyncAll(t, store).items # {} => t \in wanted \cup upToDate
                    /\ SyncAll(t, store).items = {} <=> SyncAll(t, store).skipped # None
                    /\ SyncAll(t, store).skipped # "Builder returned null"
                    /\ SyncAll(t, store).items # {} => Listed(store) \/ t = "agreement"
  BY DEF SyncMatchesChanges
<1>1. Admitted(t, store) => store["ctercero"] # {}
  BY DEF Admitted
<1>2. /\ SyncAll(t, store).items = Due(t, store)
      /\ SyncAll(t, store).items = {} <=> SyncAll(t, store).skipped # None
      /\ SyncAll(t, store).skipped # "Builder returned null"
      /\ SyncAll(t, store).items # {} => Listed(store) \/ t = "agreement"
  <2> USE DEF SyncAll, SupplierSyncAll, ContactSyncAll, AgreementSyncAll, Built, Items,
          Skipped, None, Due, Build, CodareExempt, Listed
  <2>1. CASE t = "supplier"
    BY <1>1, <2>1, WhenNull
  <2>2. CASE t = "contact"
    BY <1>1, <2>2, WhenNull
  <2>3. CASE t = "agreement"
    BY <2>3, WhenNull
  <2> QED
    BY <2>1, <2>2, <2>3 DEF PayloadTypes
<1> QED
  BY <1>2 DEF ChangesAreWanted

\* A synchronisation sends what is due, and what the changes have sent last or are about
\* to, whatever the tables hold.
THEOREM SyncIsConsistent == Spec => []SyncMatchesChanges
BY NothingOverlooked, SyncAgrees, PTL

LEMMA DeleteReaches == TypeOK => DeleteReachesSynced
<1> SUFFICES ASSUME TypeOK, NEW t \in PayloadTypes, NEW item \in Due(t, store)
             PROVE  \/ Name(t, item) \in DeleteAll(t, store).items
                    \/ /\ t = "contact" /\ item.NIF = Null
                       /\ DeleteAll(t, store).skipped = "cif"
                    \/ t = "agreement" /\ item.CodAgreement = Blank
  BY DEF DeleteReachesSynced
<1>1. /\ item \in Build(t, store)
      /\ t # "agreement" => Admitted(t, store) /\ store["ctercero"] # {}
  BY DEF Due, Admitted, CodareExempt
<1>2. CASE t = "supplier"
  BY <1>1, <1>2 DEF Name, DeleteAll, SupplierDeleteAll, Items
<1>3. CASE t = "contact"
  <2>1. PICK c \in store["ctercero"], g \in store["gproveed"], d \in store["cterdire"] :
            item = ContactItem(c, g, d)
    BY <1>1, <1>3 DEF Build, Contacts
  <2>2. item.NIF = TrimOrNull(c["cif"])
    BY <2>1 DEF ContactItem
  <2>3. DeleteAll(t, store) = IF NIFs(store) = {} THEN Skipped("cif") ELSE Items(NIFs(store))
    BY <1>1, <1>3 DEF DeleteAll, ContactDeleteAll
  <2>4. CASE item.NIF # Null
    <3>1. item.NIF \in NIFs(store)
      BY <2>2, <2>4 DEF NIFs, TrimOrNull, Null, Blank
    <3> QED
      BY <1>3, <2>3, <3>1 DEF Name, Items
  <2>5. CASE item.NIF = Null
    <3>1. \A r \in store["ctercero"] : r = c
      BY DEF TypeOK, SingleTables
    <3>2. c["cif"].text \in {Null, Blank}
      BY <2>2, <2>5 DEF TrimOrNull
    <3>3. NIFs(store) = {}
      BY <3>1, <3>2 DEF NIFs
    <3> QED
      BY <1>3, <2>3, <2>5, <3>3 DEF Skipped
  <2> QED
    BY <2>4, <2>5
<1>4. CASE t = "agreement"
  <2>1. PICK a \in store["gvenacuh"] : item = AgreementItem(a)
    BY <1>1, <1>4 DEF Build, Agreements
  <2>2. item.CodAgreement = TextOf(a["cabid"])
    BY <2>1 DEF AgreementItem
  <2>3. CASE item.CodAgreement # Blank
    <3>1. item.CodAgreement \in {TextOf(r["cabid"]) : r \in store["gvenacuh"]} \ {Blank}
      BY <2>2, <2>3
    <3>2. store["gvenacuh"] # {}
      BY <2>1
    <3> QED
      BY <1>4, <3>1, <3>2 DEF Name, DeleteAll, AgreementDeleteAll, Items
  <2> QED
    BY <1>4, <2>3
<1> QED
  BY <1>2, <1>3, <1>4 DEF PayloadTypes

\* What has been synchronised can be deleted, whatever the tables hold.
THEOREM SyncedIsDeletable == Spec => []DeleteReachesSynced
BY TypeCorrect, DeleteReaches, PTL
=============================================================================
