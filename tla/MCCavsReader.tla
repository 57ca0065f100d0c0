----------------------------- MODULE MCCavsReader -----------------------------
EXTENDS CavsReader

KV(k, v) == [kind |-> "kv", key |-> k, value |-> v, name |-> ""]
Blank    == [kind |-> "blank", key |-> "", value |-> "", name |-> ""]
Header(n) == [kind |-> "section", key |-> "", value |-> "", name |-> n]

\* A record of the AES benchmark's kind: Count, Key, Msg, with tag values.
Rec(i) == << KV("Count", "c" \o i), KV("Key", "k" \o i), KV("Msg", "m" \o i) >>

MCElements == <<"Count", "Key", "Msg">>
MCSections == {"[AES]", "[X]"}

\* A preamble comment, two records, each followed by a blank line.
Plain == << KV("# CAVS 11.1", ""), Blank, Header("[AES]"), Blank >>
         \o Rec("1") \o <<Blank>> \o Rec("2") \o <<Blank>>

\* ECDSA style: a non-element line after the elements, and a second
\* section after the first.
Trailing == << Header("[AES]"), Blank >>
            \o Rec("1") \o << KV("Result", "P"), Blank >>
            \o Rec("2") \o << KV("Result", "F"), Blank >>
            \o << Header("[X]"), Blank >> \o Rec("3") \o <<Blank>>

\* CCM style: a non-element line shared by the section's records, then
\* records separated by two blank lines, elements in another order.
Shared == << Header("[X]"), KV("Nonce", "n0"), Blank >>
          \o << KV("Count", "c1"), KV("Msg", "m1"), KV("Key", "k1"), Blank, Blank >>
          \o Rec("2") \o <<Blank>>

\* [AES] has no records and is followed at once by [X]; and a file
\* without an [AES] section at all.
EmptyFirst == << Header("[AES]"), Blank, Header("[X]"), Blank >> \o Rec("1") \o <<Blank>>
OnlyX == << KV("# CAVS 11.1", ""), Header("[X]") >> \o Rec("1") \o <<Blank, Blank>>

\* The file's last line is the header of an empty [X].
EmptyLast == << Header("[AES]"), Blank >> \o Rec("1") \o << Blank, Header("[X]") >>

MCFiles == {Plain, Trailing, Shared, EmptyFirst, OnlyX, EmptyLast}

\* The same records, but the file ends right after the last element line.
NoFinalBlank == << Header("[AES]"), Blank >> \o Rec("1") \o <<Blank>> \o Rec("2")

MCFilesNoFinalBlank == {NoFinalBlank}

=============================================================================
