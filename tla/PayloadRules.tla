---------------------------- MODULE PayloadRules ----------------------------
(***************************************************************************)
(* What an event changes and what is sent for it: the registry of tables   *)
(* (domain/table-registry.ts), change detection (domain/watched-fields.ts),*)
(* the codare filter (domain/codare-registry.ts) and the three builders    *)
(* (payloads/), for one codigo.                                            *)
(*                                                                         *)
(* A store is a function from tables to the set of rows of that codigo; a  *)
(* single_store table has at most one.  A row is a record of values, all   *)
(* but its key.  A value is a text, null or blank included, and the        *)
(* padding that may follow it in a CHAR column.                            *)
(***************************************************************************)
Null  == "null"
Blank == ""

PayloadTypes == {"supplier", "contact", "agreement"}
SingleTables == {"ctercero", "gproveed"}
Tables == SingleTables \cup {"cterdire", "gvenacuh"}

-----------------------------------------------------------------------------
(***************************************************************************)
(* The registry.  cterasoc is left out: it has no watched field, and no    *)
(* builder reads it.                                                       *)
(***************************************************************************)
\* The types that codare "PRO" and ctercero's fields concern.
Partner == {"supplier", "contact"}

\* FIELD_TO_PAYLOADS; its domains are WATCHED_FIELDS.
FieldToPayloads ==
    [ctercero |-> [codigo |-> Partner, nombre |-> Partner, cif |-> Partner,
                   codare |-> Partner],
     gproveed |-> [fecalt |-> {"supplier"}, fecbaj |-> {"supplier", "contact"}],
     cterdire |-> [f \in {"direcc", "poblac", "codnac", "codpos", "telef1", "email"}
                     |-> {"contact"}],
     gvenacuh |-> [f \in {"coment", "cabid", "tipdoc", "fecfin", "fecini", "clasif",
                          "terenv", "impres", "indmod", "frmpag"} |-> {"agreement"}]]

WatchedFields(table) == DOMAIN FieldToPayloads[table]

-----------------------------------------------------------------------------
(***************************************************************************)
(* The store: SqliteStore.update() for rows whose content identifies them  *)
(***************************************************************************)

\* recordsMatch(): all stored fields agree, padding apart.
RecordsMatch(r, q) == \A f \in DOMAIN q : r[f].text = q[f].text

\* Mutant: single_store keeps the old row beside the new one.
UpdatedWithoutReplacing(store, table, op, before, after) ==
    LET rows == store[table]
        new  == IF op = "d" THEN rows \ {before} ELSE rows \cup {after}
    IN  [store EXCEPT ![table] = new]

\* before is the old row and after the new one; "d" has no after, "c" and "r" have
\* no before.
Updated(store, table, op, before, after) ==
    LET rows == store[table]
        new  == CASE op = "d" -> rows \ {before}
                  [] op # "d" /\ table \in SingleTables -> {after}
                  [] op = "u" /\ table \notin SingleTables -> (rows \ {before}) \cup {after}
                  [] OTHER -> IF \E r \in rows : RecordsMatch(r, after) THEN rows
                              ELSE rows \cup {after}
    IN  [store EXCEPT ![table] = new]

-----------------------------------------------------------------------------
(***************************************************************************)
(* Change detection and filter                                             *)
(***************************************************************************)

\* detectChanges(): every watched field of a row that comes or goes, and those of an
\* updated row that differ when trimmed.
ChangedFields(table, op, before, after) ==
    IF op = "u" THEN {f \in WatchedFields(table) : before[f].text # after[f].text}
    ELSE WatchedFields(table)

AffectedTypes(table, fields) == UNION {FieldToPayloads[table][f] : f \in fields}

GetAllowedTypes(codare) == IF codare.text = "PRO" THEN Partner ELSE {}

CodareExempt == {"agreement"}

\* Without ctercero record nothing is filtered.
Filtered(store, types) ==
    {t \in types : \/ store["ctercero"] = {}
                   \/ t \in CodareExempt
                   \/ \E c \in store["ctercero"] : t \in GetAllowedTypes(c["codare"])}

-----------------------------------------------------------------------------
(***************************************************************************)
(* The builders.  A payload is the set of its items; {} is null.  Items    *)
(* have the fields that the store decides.                                 *)
(***************************************************************************)
TextOf(v)     == IF v.text = Null THEN Blank ELSE v.text    \* String(v ?? "").trim()
TrimOrNull(v) == IF v.text = Blank THEN Null ELSE v.text
IsActive(v)   == v.text \in {Null, Blank}
\* A date, or null: the texts of a date column are dates.
FormatDate(v) == TrimOrNull(v)
\* Different codes are taken for different countries.
ToISO2(v)     == TrimOrNull(v)
\* parseInt(...) || 0: the other texts of frmpag are numbers.
DelayDays(v)  == IF v.text \in {Null, Blank} THEN "0" ELSE v.text
\* The one value that is not trimmed.
Updatable(v)  == v.text = "M" /\ ~v.pad

SupplierItem(c, g) ==
    [Supplier |-> TextOf(c["nombre"]), NIF |-> TrimOrNull(c["cif"]),
     StartDate |-> FormatDate(g["fecalt"]), Active |-> IsActive(g["fecbaj"])]

ContactItem(c, g, d) ==
    [Name |-> TextOf(c["nombre"]), NIF |-> TrimOrNull(c["cif"]),
     Adress |-> TrimOrNull(d["direcc"]), City |-> TrimOrNull(d["poblac"]),
     Country |-> ToISO2(d["codnac"]), Postal_Code |-> TrimOrNull(d["codpos"]),
     Phone |-> TrimOrNull(d["telef1"]), E_Mail |-> TrimOrNull(d["email"]),
     Active |-> IsActive(g["fecbaj"])]

AgreementItem(a) ==
    [Agreement |-> TextOf(a["coment"]), CodAgreement |-> TextOf(a["cabid"]),
     CodType |-> TextOf(a["tipdoc"]), DateEnd |-> FormatDate(a["fecfin"]),
     DateStart |-> FormatDate(a["fecini"]), DelayDays |-> DelayDays(a["frmpag"]),
     CodAgreement_Parent |-> TrimOrNull(a["clasif"]),
     PrintedChar |-> TextOf(a["impres"]), Updatable |-> Updatable(a["indmod"])]

\* SupplierBuilder, SupplierContactBuilder and AgreementBuilder.
Suppliers(store) ==
    {SupplierItem(c, g) : c \in store["ctercero"], g \in store["gproveed"]}

Contacts(store) ==
    {ContactItem(c, g, d) : c \in store["ctercero"], g \in store["gproveed"],
                            d \in store["cterdire"]}

Agreements(store) == {AgreementItem(a) : a \in store["gvenacuh"]}

\* registry.get(type).build(codigo)
Build(type, store) == CASE type = "supplier"  -> Suppliers(store)
                        [] type = "contact"   -> Contacts(store)
                        [] type = "agreement" -> Agreements(store)
=============================================================================
