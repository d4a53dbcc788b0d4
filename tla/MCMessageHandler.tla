-------------------------- MODULE MCMessageHandler --------------------------
EXTENDS MessageHandler

CONSTANT MaxOdd     \* bound: rows with an unusual value, besides the ctercero record

Text(x)   == [text |-> x, pad |-> FALSE]
Padded(x) == [text |-> x, pad |-> TRUE]

Column(first, others) == [first |-> Text(first), others |-> others]
Any  == Column("a", {Text("b")})
Char == Column("a", {Text("b"), Padded("a")})

\* For each column its usual value, and others: a padded or another text, null, blank.
Columns ==
    [ctercero |-> [codigo |-> Column("k", {}), nombre |-> Any,
                   cif    |-> Column("a", {Text(Null), Padded(Blank)}),
                   codare |-> Column("PRO", {Padded("PRO"), Text("LAB"), Text(Null)})],
     gproveed |-> [fecalt |-> Column("a", {Text("b"), Text(Null)}),
                   fecbaj |-> Column(Null, {Text("a"), Text(Blank)})],
     cterdire |-> [f \in WatchedFields("cterdire") \cup {"tipdir"} |->
                     CASE f = "email"  -> Column("a", {Text("b"), Text(Null)})
                       [] f = "direcc" -> Char
                       [] OTHER -> Any],
     gvenacuh |-> [f \in WatchedFields("gvenacuh") |->
                     CASE f = "indmod" -> Column("M", {Text("X")})
                       [] f = "cabid"  -> Column("a", {Text("b"), Text(Null)})
                       [] f = "coment" -> Char
                       [] f = "fecfin" -> Column("a", {Text("b"), Text(Null)})
                       [] OTHER -> Any]]

UsualRow(table) == [f \in DOMAIN Columns[table] |-> Columns[table][f].first]

MCContents ==
    [table \in Tables |->
        {UsualRow(table)} \cup
        {[UsualRow(table) EXCEPT ![p[1]] = p[2]] : p \in
            UNION {{f} \X Columns[table][f].others : f \in DOMAIN Columns[table]}}]

OddRows(s) ==
    UNION {{<<table, r>> : r \in s[table] \ {UsualRow(table)}} : table \in Tables \ {"ctercero"}}

MCSpec == Init /\ [][Next /\ Cardinality(OddRows(store')) <= MaxOdd]_vars
=============================================================================
