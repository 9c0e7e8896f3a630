----------------------------- MODULE MCParsing -----------------------------
(* Names (r, p, rP) of which one begins and one ends the other, a buffer    *)
(* for three characters, texts of up to four.                               *)
EXTENDS Parsing

r == 114
p == 112

MCNames == {<<r>>, <<r, 80>>, <<p>>}

Strings(alphabet, n) == UNION {[1..k -> alphabet] : k \in 0..n}

Texts == Strings({r, 10, Space, And, Percent}, 4)
Second == {<<>>, <<p>>, <<And, Equals>>}
Item(name, text) == [name |-> name, text |-> text]

MCForms == {<<>>}
    \cup {<<Item(name, text)>> : name \in MCNames, text \in Texts}
    \cup {<<Item(m, t), Item(n, u)>> : m, n \in MCNames, t \in Strings({r, Plus}, 4),
                                       u \in Second}

MCQueries == Strings({r, p, 80, Equals, And}, 6)
    \cup {<<r, Equals>> \o text : text \in Strings({r, Percent, 48}, 5)}

MCCsvs == Strings({r, Comma, Space}, 7)
MCWords == Strings({r, Space, Comma}, 3)
=============================================================================
