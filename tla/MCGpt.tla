---- MODULE MCGpt ----
\* Gpt for TLC: a table of two chunks in two versions, which differ in the
\* partition that is marked active.
EXTENDS Gpt

Row(n, active) == [name |-> n, addr |-> n, active |-> active]
Version(n) == << [entries |-> {Row("para", FALSE), Row("ext1", n = "ext1")}, mark |-> "gpt"],
                 [entries |-> {Row("ext2", n = "ext2")}, mark |-> "gpt"] >>
MCTables == {Version(n) : n \in Ext}
====
