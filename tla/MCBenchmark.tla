---------------------------- MODULE MCBenchmark ----------------------------
EXTENDS Benchmark

KV(k, v) == [kind |-> "kv", key |-> k, value |-> v, name |-> ""]
Blank    == [kind |-> "blank", key |-> "", value |-> "", name |-> ""]
Header(n) == [kind |-> "section", key |-> "", value |-> "", name |-> n]

\* A file as ccm-generate-cavs.py writes the decryption side: the section
\* header, Key and Nonce for the section, then per vector Count, Plen,
\* Adata, "Result = Pass", Payload and CT, each followed by a blank line.
GenRec(i) == << KV("Count", "c" \o i), KV("Plen", "l" \o i), KV("Adata", "a" \o i),
                KV("Result", "Pass"), KV("Payload", "p" \o i), KV("CT", "t" \o i), Blank >>
Generated == << Header("[S1]"), Blank, KV("Key", "k1"), Blank, KV("Nonce", "n1"), Blank >>
             \o GenRec("1") \o GenRec("2")

\* A NIST DVPT-style file: Key per section, Nonce per vector, the Payload
\* line after Result only for a Pass vector; the second section follows.
PassRec(i) == << KV("Count", "c" \o i), KV("Nonce", "n" \o i), KV("Adata", "a" \o i),
                 KV("CT", "t" \o i), KV("Result", "Pass"), KV("Payload", "p" \o i), Blank >>
FailRec(i) == << KV("Count", "c" \o i), KV("Nonce", "n" \o i), KV("Adata", "a" \o i),
                 KV("CT", "t" \o i), KV("Result", "Fail"), Blank >>
Nist == << Header("[S1]"), Blank, KV("Key", "k1"), Blank >> \o PassRec("1") \o FailRec("2")
        \o << Header("[S2]"), Blank, KV("Key", "k2"), Blank >> \o FailRec("3") \o PassRec("4")

\* An [AES] file as aes-generate-cavs.py writes it: per length Count, Key,
\* IV, Msg, then CBC, ECB and CTR, and a blank line.
AesRec(i) == << KV("Count", i), KV("Key", "k" \o i), KV("IV", "v" \o i), KV("Msg", "m" \o i),
                KV("CBC", "b" \o i), KV("ECB", "e" \o i), KV("CTR", "r" \o i), Blank >>
AesFile == << Header("[AES]") >> \o AesRec("16") \o AesRec("32")

\* A SigGen file: per section records Msg, d, Qx, Qy, k, R and S, the
\* values those of a correct signer.
SignRec(size, i) ==
    LET dv  == [eccCurve |-> size, priv |-> "d" \o i, eph |-> "k" \o i, buf |-> Plain("m" \o i)]
        q   == EcGenerate(dv, "d" \o i)
        sig == EcSign(dv)
    IN  << KV("Msg", "m" \o i), KV("d", "d" \o i), KV("Qx", q[1]), KV("Qy", q[2]),
           KV("k", "k" \o i), KV("R", sig[1]), KV("S", sig[2]), Blank >>
SignFile == << Header("[P-192,SHA-256]"), Blank >> \o SignRec(6, "1") \o SignRec(6, "2")
            \o << Header("[P-224,SHA-256]"), Blank >> \o SignRec(7, "3")

\* A KeyPair file: per section records d, Qx and Qy.
KeyRec(size, i) ==
    LET q == EcGenerate([eccCurve |-> size], "d" \o i)
    IN  << KV("d", "d" \o i), KV("Qx", q[1]), KV("Qy", q[2]), Blank >>
KeyFile == << Header("[P-192]"), Blank >> \o KeyRec(6, "1") \o KeyRec(6, "2")
           \o << Header("[P-256]"), Blank >> \o KeyRec(8, "3")

\* A SHA-256 ShortMsg file as NIST writes it and sha256-generate-cavs
\* writes it: "[L = 32]", then per message Len (in bits), Msg and MD, each
\* record followed by a blank line; the Len = 0 message is "00".
ShaRec(len, msg, n) == << KV("Len", len), KV("Msg", msg), KV("MD", Digest(Plain(msg), n)), Blank >>
ShaFile == << Header("[L = 32]"), Blank >> \o ShaRec("0", "00", 0) \o ShaRec("8", "m1", 1)
           \o ShaRec("128", "m16", 16)
\* A record whose Len names more bytes than its Msg holds.
ShaShort == << Header("[L = 32]"), Blank >> \o ShaRec("8", "m1", 1) \o ShaRec("128", "m1", 16)

MCApps         == {"ccm", "aes", "aesgen", "cmc", "ecdsa", "keypair", "eccgen", "ccmgen",
                   "elgamal", "paillier", "sha", "shagen"}
MCFilesOf      == [a \in MCApps |->
                     CASE a = "ccm"            -> {Generated, Nist}
                       [] a \in {"aes", "cmc"} -> {AesFile}
                       [] a = "ecdsa"          -> {SignFile}
                       [] a = "keypair"        -> {KeyFile}
                       [] a = "sha"            -> {ShaFile, ShaShort}
                       [] OTHER                -> {<<>>}]

\* The NIST DVPT file alone: a Pass and a Fail vector in one section.
MCNistFilesOf  == [a \in MCApps |-> IF a = "ccm" THEN {Nist} ELSE MCFilesOf[a]]
MCSectionLists == {<<"[S1]">>, <<"[S2]", "[S1]">>, <<"[S1]", "[S2]">>}
MCEccSectionLists == {<<"[P-192,SHA-256]", "[P-224,SHA-256]">>, <<"[P-192]", "[P-256]">>,
                      <<"[P-192,SHA-224]">>}
MCEccGenNum    == 2
MCCycles       == 2
MCAesModes     == {1, 3, 4}
MCGenLengths   == <<"16", "17">>
\* The last size P-192 holds (24 bytes) and the first it does not.
MCPkSizeLists  == {<<1, 24>>, <<24, 25>>}
\* Both CCM sections have the same Plen, and every AES/CMC message is 16
\* bytes, as in the NIST files: their measurements share test names.
MCCcmSectionPlen == ("[S1]" :> "24") @@ ("[S2]" :> "24")
MCByteLen(v)   == IF v \in {"00", "m1"} THEN "1" ELSE "16"
MCDecimal(v)   == CASE v = "0" -> 0 [] v = "1" -> 1 [] v = "8" -> 8 [] v = "16" -> 16
                      [] v = "128" -> 128
\* The first length getrandbits refuses, and a range without it.
MCShaLengthLists == {<<0, 1>>, <<1, 16>>}
\* Two names an analysis loads a file under, so that loads add up.
MCAnalyses     == {"hw", "sw"}

=============================================================================
