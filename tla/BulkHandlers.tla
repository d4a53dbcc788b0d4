---------------------------- MODULE BulkHandlers ----------------------------
(***************************************************************************)
(* What the bulk handlers (bulk/handlers/) do with one codigo: one turn of *)
(* the loops of syncAll() and deleteAll().  A result has the items for the *)
(* API, or the reason for skipping the codigo, or neither.                 *)
(***************************************************************************)
EXTENDS PayloadRules

None == "none"

Items(items)    == [items |-> items, skipped |-> None]
Skipped(reason) == [items |-> {}, skipped |-> reason]

\* The builder's answer.
Built(type, store) ==
    LET payload == Build(type, store)
    IN  IF payload # {} THEN Items(payload) ELSE Skipped("Builder returned null")

Admitted(type, store) ==
    \E c \in store["ctercero"] : type \in GetAllowedTypes(c["codare"])

SupplierSyncAll(store) ==
    IF store["ctercero"] = {} THEN Skipped("ctercero")
    ELSE IF ~Admitted("supplier", store) THEN Skipped("codare")
    ELSE IF store["gproveed"] = {} THEN Skipped("gproveed")
    ELSE Built("supplier", store)

\* Mutant: addresses are not asked for.
ContactSyncAllUnchecked(store) ==
    IF store["ctercero"] = {} THEN Skipped("ctercero")
    ELSE IF ~Admitted("contact", store) THEN Skipped("codare")
    ELSE IF store["gproveed"] = {} THEN Skipped("gproveed")
    ELSE Built("contact", store)

ContactSyncAll(store) ==
    IF store["ctercero"] = {} THEN Skipped("ctercero")
    ELSE IF ~Admitted("contact", store) THEN Skipped("codare")
    ELSE IF store["gproveed"] = {} THEN Skipped("gproveed")
    ELSE IF store["cterdire"] = {} THEN Skipped("cterdire")
    ELSE Built("contact", store)

AgreementSyncAll(store) ==
    IF store["gvenacuh"] = {} THEN Skipped("gvenacuh") ELSE Built("agreement", store)

SyncAll(type, store) == CASE type = "supplier"  -> SupplierSyncAll(store)
                          [] type = "contact"   -> ContactSyncAll(store)
                          [] type = "agreement" -> AgreementSyncAll(store)

-----------------------------------------------------------------------------
\* Without a list of codigos, an operation goes through those of ctercero
\* (bulk-service.ts:34,59).
Listed(store) == store["ctercero"] # {}

\* A supplier is deleted by its codigo.
SupplierDeleteAll(store) ==
    IF store["ctercero"] = {} THEN Skipped("ctercero")
    ELSE IF ~Admitted("supplier", store) THEN Skipped("codare")
    ELSE Items({"CodSupplier"})

NIFs(store) == {c["cif"].text : c \in store["ctercero"]} \ {Null, Blank}

\* Mutant: a codigo without NIF is dropped without a word.
ContactDeleteAllSilent(store) ==
    IF store["ctercero"] = {} THEN Skipped("ctercero")
    ELSE IF ~Admitted("contact", store) THEN Skipped("codare")
    ELSE Items(NIFs(store))

\* One deletion, by codigo and NIF, for all addresses.
ContactDeleteAll(store) ==
    IF store["ctercero"] = {} THEN Skipped("ctercero")
    ELSE IF ~Admitted("contact", store) THEN Skipped("codare")
    ELSE IF NIFs(store) = {} THEN Skipped("cif")
    ELSE Items(NIFs(store))

\* An agreement without cabid is neither named nor reported.
AgreementDeleteAll(store) ==
    IF store["gvenacuh"] = {} THEN Skipped("gvenacuh")
    ELSE Items({TextOf(a["cabid"]) : a \in store["gvenacuh"]} \ {Blank})

DeleteAll(type, store) == CASE type = "supplier"  -> SupplierDeleteAll(store)
                            [] type = "contact"   -> ContactDeleteAll(store)
                            [] type = "agreement" -> AgreementDeleteAll(store)
=============================================================================
