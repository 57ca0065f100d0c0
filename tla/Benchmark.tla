------------------------------- MODULE Benchmark -------------------------------
(***************************************************************************)
(* TerminalApplication.main and the execute_test of the application it    *)
(* runs: the crypto-engine switch of main, then                            *)
(*   "ccm"    ccm-decrypt-benchmark.py: enableUpload when no output file   *)
(*            is given; per selected section of the CAVS file (CavsReader *)
(*            with enablePeekOne) and per vector: setKey, uploadMessage,   *)
(*            and per cycle clearTimer, decrypt, and with upload the       *)
(*            download of the plaintext and its check;                     *)
(*   "aes"    aes-benchmark.py: mode and interface switches, enableUpload, *)
(*            per vector of [AES]: setKey, setIV, uploadMessage, and per  *)
(*            cycle clearTimer, encrypt or decrypt, and with upload the    *)
(*            download and its comparison with the PyCrypto reference;     *)
(*   "aesgen" aes-generate-cavs.py: per message length, the three          *)
(*            encryptions whose results it writes as a test vector;        *)
(*   "cmc", "ecdsa", "keypair", "eccgen", "ccmgen", "elgamal",             *)
(*   "paillier", "sha" and "shagen": cmc-benchmark, ecdsa-sign-benchmark,  *)
(*            ecdsa-keypair-benchmark, ecdsa-generate-cavs,                *)
(*            ccm-generate-cavs, ec-elgamal-benchmark, pailler-benchmark,  *)
(*            sha256-benchmark and sha256-generate-cavs, each described    *)
(*            at its actions.                                              *)
(*                                                                         *)
(* Each wrapper call is one executeCommand (TestInterface.tla); one loop  *)
(* iteration is one step.  The device keeps the switches the management,  *)
(* CCM and AES applications set and its key, IV and buffer.  A cipher     *)
(* result is a record naming what was computed from what; whether the     *)
(* device writes it back into its buffer is firmware behaviour, chosen    *)
(* per run.  A faulty device may answer anything.                         *)
(***************************************************************************)
EXTENDS Integers, Sequences, SequencesExt, FiniteSets

CONSTANTS
    Apps,            \* the applications main may run (AppNames)
    FilesOf,         \* the CAVS response files (args.file) each application is given
    SectionLists,    \* ccm's -s arguments: sequences of section names
    EccSectionLists, \* ecdsa-sign's and ecdsa-keypair's -s arguments
    EccGenNum,       \* ecdsa-generate-cavs's num
    AesModes,        \* aes's -m values
    GenLengths,      \* aesgen's range(min, max + 1, step), as a sequence
    PkSizeLists,     \* ec-elgamal's and pailler's range(min, max + 1, step), in bytes
    CcmSectionPlen,  \* the Plen of each CCM section's header [Alen = .., Plen = .., ..]
    ByteLen(_),      \* len(binascii.a2b_hex(v)) of a message, as "%s" formats it
    Decimal(_),      \* int(v) of a decimal string
    ShaLengthLists,  \* sha256-generate-cavs's range(min, max + 1, step), in bytes
    Cycles,          \* args.cycles
    Analyses,        \* the algorithm names a later analysis loads a saved file under
    MaxLoads,        \* bound on its MeasurementReader load calls
    DeviceFaulty,    \* whether the device may answer a wrong result
    DeviceInPlace    \* the firmware behaviours explored: result written back or not

\* The scripts: ccm-decrypt-benchmark, aes-benchmark, aes-generate-cavs,
\* cmc-benchmark, ecdsa-sign-benchmark, ecdsa-keypair-benchmark,
\* ecdsa-generate-cavs, ccm-generate-cavs, ec-elgamal-benchmark,
\* pailler-benchmark, sha256-benchmark and sha256-generate-cavs.
AppNames == {"ccm", "aes", "aesgen", "cmc", "ecdsa", "keypair", "eccgen", "ccmgen",
             "elgamal", "paillier", "sha", "shagen"}
PkApps   == {"elgamal", "paillier"}
EccApps  == {"ecdsa", "keypair", "eccgen"}
ShaApps  == {"sha", "shagen"}

CcmElements   == <<"Count", "Adata", "CT", "Result">>
AesElements   == <<"Count", "Key", "IV", "Msg", "ECB", "CBC", "CTR">>
SignElements  == <<"Msg", "d", "Qx", "Qy", "k", "R", "S">>
KeyElements   == <<"d", "Qx", "Qy">>
ShaElements   == <<"Len", "Msg", "MD">>

VARIABLES
    app,         \* the application main runs
    \* CavsReader's object
    file, pos, section, peek, entry,
    \* the script
    spc,         \* "main", "start", "section", "vector", "cycle", "done" or "failed"
    err,         \* "none", "TestVectorFailed", "KeyError", "SectionNotFound", "UnknownMode",
                 \* "IndexError", "RuntimeError", "ValueError"
    upload,      \* args.output is None
    args,        \* aes: [mode, register, decrypt]
    todo,        \* ccm: sections not yet started; aesgen: lengths not yet done
    cur,         \* the entry of the running vector
    cyc,         \* cycles done for it
    ran,         \* the Count of each vector run, in order
    written,     \* the generators: the vectors written to the output file
    curve,       \* ECurve's self.curve: the selected curve's size, 0 before
    nb,          \* the ccm and ECC benchmarks' vector counter, 1 at a section's start
    data,        \* MeasurementWriter's data: test name -> key -> values added
    \* a MeasurementReader analysing the file save() wrote
    readerData, loads, rpc,
    \* the device
    dev,         \* switches, key, IV and buffer
    inPlace,     \* the device writes a cipher result back into its buffer
    out,         \* its answer to the last decryption or encryption
    undetected   \* a wrong answer has passed the check

vars == <<app, file, pos, section, peek, entry, spc, err, upload, args, todo, cur, cyc,
          ran, written, curve, nb, data, dev, inPlace, out, undetected,
          readerData, loads, rpc>>

\* The file save() writes is what the reader of a later analysis loads.
RD == INSTANCE MeasurementReader WITH Algorithms <- Analyses, MaxLoads <- MaxLoads,
                                      file <- data, data <- readerData, loads <- loads, rpc <- rpc

reader == <<readerData, loads, rpc>>

Sections == UNION {Range(l) : l \in SectionLists \cup EccSectionLists} \cup {"[AES]", "[L = 32]"}

\* The reader of each script: CavsReader(args.file, ..., elements).
Files == UNION {FilesOf[a] : a \in DOMAIN FilesOf}

R  == INSTANCE CavsReader WITH Sections <- Sections, Elements <- CcmElements,
                               pc <- "iterating", yielded <- <<>>
RA == INSTANCE CavsReader WITH Sections <- Sections, Elements <- AesElements,
                               pc <- "iterating", yielded <- <<>>
RS == INSTANCE CavsReader WITH Sections <- Sections, Elements <- SignElements,
                               pc <- "iterating", yielded <- <<>>
RK == INSTANCE CavsReader WITH Sections <- Sections, Elements <- KeyElements,
                               pc <- "iterating", yielded <- <<>>
RH == INSTANCE CavsReader WITH Sections <- Sections, Elements <- ShaElements,
                               pc <- "iterating", yielded <- <<>>

-----------------------------------------------------------------------------
(* Commands and the device's dispatch                                     *)

\* TestInterface's application ids and management functions, and AppCCM's
\* and AppAES's functions (enums copied from test-interface.h).
APP_MANAGEMENT == 2
APP_CCM        == 5
APP_ECC        == 6
APP_AES        == 8
APP_TIMER      == 3
SWITCH_TIMER_OUTPUT == 4
SWITCH_PKA     == 2
SWITCH_CRYPTO  == 3
SELECT_CCM_ENGINE == 1
SWITCH_UPLOAD  == 2
SELECT_AES_MODE   == 1
AES_SWITCH_UPLOAD == 2
SELECT_AES_INTERFACE == 9
SELECT_AES_ENGINE == 12
SELECT_ECC_ENGINE == 1
APP_PAILLER    == 9
APP_ELGAMAL    == 10

\* The device's handler for (app, function) with a one-byte argument.
Dispatch(d, a, function, arg) ==
    CASE a = APP_MANAGEMENT /\ function = SWITCH_PKA    -> [d EXCEPT !.pka = arg]
      [] a = APP_MANAGEMENT /\ function = SWITCH_CRYPTO -> [d EXCEPT !.crypto = arg]
      [] a = APP_CCM /\ function = SELECT_CCM_ENGINE    -> [d EXCEPT !.ccmEngine = arg]
      [] a = APP_CCM /\ function = SWITCH_UPLOAD        -> [d EXCEPT !.ccmUpload = arg]
      [] a = APP_AES /\ function = SELECT_AES_MODE      -> [d EXCEPT !.aesMode = arg]
      [] a = APP_AES /\ function = AES_SWITCH_UPLOAD    -> [d EXCEPT !.aesUpload = arg]
      [] a = APP_AES /\ function = SELECT_AES_INTERFACE -> [d EXCEPT !.aesIface = arg]
      [] a = APP_AES /\ function = SELECT_AES_ENGINE    -> [d EXCEPT !.aesEngine = arg]
      [] a = APP_ECC /\ function = SELECT_ECC_ENGINE    -> [d EXCEPT !.eccEngine = arg]
      [] a = APP_TIMER /\ function = SWITCH_TIMER_OUTPUT -> [d EXCEPT !.timerOutput = arg]
      [] OTHER                                          -> d

\* AppCCM's switchToHardwareCrypto / switchToSoftwareCrypto.
SwitchCcm(d, hardware) ==
    Dispatch(Dispatch(d, APP_MANAGEMENT, SWITCH_CRYPTO, IF hardware THEN 1 ELSE 0),
             APP_CCM, SELECT_CCM_ENGINE, IF hardware THEN 0 ELSE 1)

\* AppAES's switchToHardwareCrypto / switchToSoftwareCrypto.
SwitchAes(d, hardware) ==
    Dispatch(Dispatch(d, APP_MANAGEMENT, SWITCH_CRYPTO, IF hardware THEN 1 ELSE 0),
             APP_AES, SELECT_AES_ENGINE, IF hardware THEN 0 ELSE 1)

\* AppECC's: the hardware switch turns on the crypto engine and the PKA,
\* the software switch turns off only the PKA.
SwitchEcc(d, hardware) ==
    IF hardware
    THEN Dispatch(Dispatch(Dispatch(d, APP_MANAGEMENT, SWITCH_CRYPTO, 1),
                           APP_MANAGEMENT, SWITCH_PKA, 1), APP_ECC, SELECT_ECC_ENGINE, 0)
    ELSE Dispatch(Dispatch(d, APP_MANAGEMENT, SWITCH_PKA, 0), APP_ECC, SELECT_ECC_ENGINE, 1)

\* AppECElgamal's and AppPailler's switchToHardwareCrypto turns on the
\* PKA; they have no switchToSoftwareCrypto, and main catches the
\* AttributeError.
SwitchPk(d, hardware) ==
    IF hardware THEN Dispatch(d, APP_MANAGEMENT, SWITCH_PKA, 1) ELSE d

\* AppSha256, which both SHA-256 scripts import, is not in this
\* repository: the switches its wrapper makes are unknown, and the model
\* leaves the device's switches as they are.
SwitchSha(d, hardware) == d

\* The switch of the interface the application instantiates.
SwitchCrypto(d, a, hardware) ==
    CASE a \in {"ccm", "ccmgen"} -> SwitchCcm(d, hardware)
      [] a \in ShaApps           -> SwitchSha(d, hardware)
      [] a \in EccApps           -> SwitchEcc(d, hardware)
      [] a \in PkApps            -> SwitchPk(d, hardware)
      [] OTHER                   -> SwitchAes(d, hardware)

\* AppCCM.enableUpload and AppAES.enableUpload:
\* executeCommand(APP_MANAGEMENT, SWITCH_UPLOAD / AES_SWITCH_UPLOAD, 1, [0x01]).
enableUpload(d, a) ==
    Dispatch(d, APP_MANAGEMENT, IF a = "ccm" THEN SWITCH_UPLOAD ELSE AES_SWITCH_UPLOAD, 1)

\* AppTimer.enableTimerOutput: executeCommand(APP_TIMER, SWITCH_TIMER_OUTPUT, 1, [0x01]).
enableTimerOutput(d) == Dispatch(d, APP_TIMER, SWITCH_TIMER_OUTPUT, 1)

\* "if args.export: client.enableTimerOutput()", in main and again in the
\* ccm, aes and cmc scripts.
ExportTimer(d, a) == IF a.export THEN enableTimerOutput(d) ELSE d

\* The SHA-256 digest of the first n bytes of a buffer: every buffer's
\* first 0 bytes are the empty message.
Digest(b, n) == IF n = 0 THEN [sha |-> "empty"] ELSE [sha |-> b, n |-> n]

\* What a correct device answers to the CCM decryption of a vector.
Plaintext(e) == IF e["Result"] = "Pass" THEN e["Payload"] ELSE ""

\* A message as uploaded, and the result of an AES operation on a buffer:
\* ECB ignores the IV, as both the device and PyCrypto do.
Plain(m) == [plain |-> m]
Cipher(op, mode, key, iv, msg) ==
    [op |-> op, mode |-> mode, key |-> key, iv |-> IF mode = 1 THEN "-" ELSE iv, msg |-> msg]

\* aes_mode's PyCrypto cipher on the vector: AES.new(Key, aes_mode, IV)
\* (for CTR a Counter starting at IV), encrypt or decrypt of Msg.
AesReference(e, a) ==
    Cipher(IF a.decrypt THEN "dec" ELSE "enc", a.mode, e["Key"], e["IV"], Plain(e["Msg"]))

\* The device's answer to AES_ENCRYPT / AES_DECRYPT on its state.
AesResult(d, op) == Cipher(op, d.aesMode, d.key, d.iv, d.buf)

\* The fresh plaintext of cycle c of a size: random.getrandbits(size*8),
\* as hex zero-filled (ElGamal: to whole words) -- a tag naming both.
PkInput(e, c) == Plain("in" \o ToString(e.size) \o "-" \o ToString(c))

\* The answer the vector calls for, as each script checks it.
Expected(e) ==
    CASE app = "ccm"     -> Plaintext(e)
      [] app = "aes"     -> AesReference(e, args)
      [] app = "cmc"     -> Plain(e["Msg"])
      [] app = "ecdsa"   -> <<e["R"], e["S"]>>
      [] app = "keypair" -> <<e["Qx"], e["Qy"]>>
      [] app = "paillier" -> PkInput(e, cyc)
      [] app = "sha"     -> Digest(Plain(e["Msg"]), Decimal(e["Len"]) \div 8)
      [] OTHER           -> ""

Bad == [plain |-> "bad"]

\* ECurve.CURVE_INFO, each curve by its size in words; the "[P-n,SHA-256]"
\* keys alias the curves' entries.
CURVE_INFO == ("[P-192]" :> 6) @@ ("[P-224]" :> 7) @@ ("[P-256]" :> 8) @@ ("[P-384]" :> 12)
              @@ ("[P-192,SHA-256]" :> 6) @@ ("[P-224,SHA-256]" :> 7)
              @@ ("[P-256,SHA-256]" :> 8) @@ ("[P-384,SHA-256]" :> 12)

\* The keys of eight characters or more: the aliases.
GenCurveNames == {"[P-192,SHA-256]", "[P-224,SHA-256]", "[P-256,SHA-256]", "[P-384,SHA-256]"}

\* A point's coordinates, and the curve's generator (curve["Gx"], curve["Gy"]).
X(P) == [coord |-> "x", of |-> P]
Y(P) == [coord |-> "y", of |-> P]
Gx(size) == X([generator |-> size])
Gy(size) == Y([generator |-> size])

\* EC_MULTIPLY on the device's curve: the coordinates of scalar * (x, y),
\* as getBigNum reads them from the answer's two regions.
EcMultiply(d, scalar, x, y) ==
    LET P == [curve |-> d.eccCurve, scalar |-> scalar, x |-> x, y |-> y]
    IN  <<X(P), Y(P)>>

\* EC_GENERATE: scalar * G of the device's curve.
EcGenerate(d, scalar) == EcMultiply(d, scalar, Gx(d.eccCurve), Gy(d.eccCurve))

\* EC_SIGN: (R, S) of the uploaded message under the private and the
\* ephemeral key the device holds.
EcSign(d) ==
    LET sig == [curve |-> d.eccCurve, priv |-> d.priv, eph |-> d.eph, msg |-> d.buf]
    IN  <<[r |-> sig], [s |-> sig]>>

\* A faulty device's answer to a two-operand result: one of them wrong.
FaultyPair(good) == IF DeviceFaulty THEN {<<good[1], Bad>>, <<Bad, good[2]>>} ELSE {}

\* CMC_ENCRYPT / CMC_DECRYPT on the buffer: the inverse operation under
\* the same key gives the message back.
CmcResult(d, op) ==
    IF "cmc" \in DOMAIN d.buf /\ d.buf.cmc # op /\ d.buf.key = d.key
    THEN d.buf.of
    ELSE [cmc |-> op, key |-> d.key, of |-> d.buf]

\* AppCCM.uploadMessage(msg, nonce, aal): msg, 16 spaces, the nonce padded
\* to 16 bytes, aal -- as one buffer.
CcmBuf(msg, nonce, aal) == [ccmMsg |-> msg, nonce |-> nonce, aal |-> aal]

\* CCM_ENCRYPT(mac_len, 15 - nonce length, length, adata length) on the
\* buffer under the device's key.
CcmEncrypt(d, macLen, lenLen, len, aLen) ==
    [ccm |-> "enc", key |-> d.key, of |-> d.buf, params |-> <<macLen, lenLen, len, aLen>>]

\* AppCCM.decrypt(mac_len, msg_len, len_len, add_len): CCM_DECRYPT on the
\* buffer under the device's key.  The device holds the vector's key and
\* message: it answers the vector's plaintext, or nothing if the tag does
\* not verify.  Anything else in the buffer (an earlier decryption's output
\* left there in place) fails authentication: nothing.
CcmHolds(d, e) == d.key = e["Key"] /\ d.buf = CcmBuf(e["CT"], e["Nonce"], e["Adata"])

CcmDecrypt(d, e) == IF CcmHolds(d, e) THEN Plaintext(e) ELSE ""

\* The wrappers' setters.  Each is one executeCommand whose payload the
\* device keeps in the matching field; the bytes setBigNum lays out are
\* BigNumCodec's subject.

\* AppAES.switchToECBMode / switchToCBCMode / switchToCTRMode:
\* SELECT_AES_MODE with AES_ECB, AES_CBC or AES_CTR (aes.h's 1, 2, 3).
switchToMode(d, mode) == Dispatch(d, APP_AES, SELECT_AES_MODE, mode)

\* AppAES.switchToDMA / switchToRegister: SELECT_AES_INTERFACE with 0 or 1.
switchInterface(d, register) ==
    Dispatch(d, APP_AES, SELECT_AES_INTERFACE, IF register THEN 1 ELSE 0)

\* AppAES.setKey(key) and setIV(iv): AES_SET_KEY and AES_SET_IV.
setKey(d, key) == [d EXCEPT !.key = key]
setIV(d, iv) == [d EXCEPT !.iv = iv]

\* AppCCM.setKey(key): CCM_SET_KEY.
CcmSetKey(d, key) == [d EXCEPT !.key = key]

\* AppECC.selectCurve(name): setCurve's CURVE_INFO lookup (a KeyError for
\* another name, raised before anything is sent), then EC_SET_CURVE.
selectCurve(d, name) == [d EXCEPT !.eccCurve = CURVE_INFO[name]]

\* AppECC.setPrivateKey(d) and setEphemeralKey(k): EC_SET_PRIVATE_KEY and
\* EC_SET_EPHEMERAL_KEY with one number of getNumSize() words.
setPrivateKey(d, k) == [d EXCEPT !.priv = k]
setEphemeralKey(d, k) == [d EXCEPT !.eph = k]

\* AppECElgamal.setExponent(e): EG_SET_EXPONENT; generate(): EG_GENERATE,
\* the key pair of that exponent on the selected curve.
setExponent(d, e) == [d EXCEPT !.priv = e]
EgGenerate(d) == [d EXCEPT !.key = [elgamal |-> d.priv, curve |-> d.eccCurve]]

\* AppECElgamal.mapToECAlternative(): EG_MAP_TO_EC_ALT, the plaintext
\* mapped to a point of the curve.
mapToECAlternative(d) == [d EXCEPT !.ct = [egmap |-> d.buf, curve |-> d.eccCurve]]

\* AppPailler.setKey(p, q): PAILLER_SET_P and PAILLER_SET_Q; generate()
\* derives the key pair from them, which the model names by the pair.
PaillierSetKey(d, p, q) == [d EXCEPT !.key = [paillier |-> <<p, q>>]]

\* setPlainText(plaintext) of both: EG_SET_PLAIN_TEXT / PAILLER_SET_PLAINT.
setPlainText(d, m) == [d EXCEPT !.buf = m]

-----------------------------------------------------------------------------

Switch == {-1, 0, 1, 2, 3, 4}   \* -1: never set in this run

Unset == [crypto |-> -1, pka |-> -1, ccmEngine |-> -1, ccmUpload |-> -1,
          aesEngine |-> -1, aesUpload |-> -1, aesMode |-> -1, aesIface |-> -1,
          eccEngine |-> -1, timerOutput |-> -1, eccCurve |-> 0, priv |-> "", eph |-> "",
          key |-> "", iv |-> "", buf |-> Plain(""), ct |-> ""]

TypeOK ==
    /\ app \in Apps
    /\ spc \in {"main", "start", "section", "vector", "cycle", "done", "failed"}
    /\ err \in {"none", "TestVectorFailed", "KeyError", "SectionNotFound", "UnknownMode",
               "IndexError", "RuntimeError", "ValueError"}
    /\ upload \in BOOLEAN /\ undetected \in BOOLEAN /\ inPlace \in DeviceInPlace
    /\ cyc \in 0..Cycles
    /\ \A f \in {"crypto", "pka", "ccmEngine", "ccmUpload", "aesEngine", "aesUpload",
                 "aesMode", "aesIface", "eccEngine", "timerOutput"} : dev[f] \in Switch
    /\ curve \in {0} \cup Range(CURVE_INFO) /\ dev.eccCurve \in {0} \cup Range(CURVE_INFO)
    /\ pos \in 1..Len(file) + 1
    /\ RD!TypeOK

Empty == [k \in {} |-> ""]

\* Mutant: the value list of a key made anew by every add.
addReplacing(d, test_name, measurement) ==
    LET old == IF test_name \in DOMAIN d THEN d[test_name] ELSE Empty
        new == [k \in DOMAIN old \cup DOMAIN measurement |->
                  IF k \in DOMAIN measurement THEN <<measurement[k]>> ELSE old[k]]
    IN  [t \in DOMAIN d \cup {test_name} |-> IF t = test_name THEN new ELSE d[t]]

\* MeasurementWriter.add(test_name, measurement): each value of the
\* measurement dict appended to its key's list under test_name.
add(d, test_name, measurement) ==
    LET old == IF test_name \in DOMAIN d THEN d[test_name] ELSE Empty
        new == [k \in DOMAIN old \cup DOMAIN measurement |->
                  IF k \notin DOMAIN measurement THEN old[k]
                  ELSE IF k \in DOMAIN old THEN Append(old[k], measurement[k])
                  ELSE <<measurement[k]>>]
    IN  [t \in DOMAIN d \cup {test_name} |-> IF t = test_name THEN new ELSE d[t]]

\* A timer value the device reports: a number that names what it timed,
\* the vector's place in the run and the cycle (both below 10 here), so
\* that a value lost, doubled or summed into the wrong place is visible.
TagCode == ("t" :> 1) @@ ("tot" :> 2) @@ ("mul" :> 3) @@ ("map" :> 4) @@ ("enc" :> 5)
           @@ ("dec" :> 6)
MeasValue(tag, v, c) == TagCode[tag] * 100 + v * 10 + c

\* The timer values each cycle of the running script reads.
MeasTags(a) == CASE a \in {"ccm", "aes", "cmc", "keypair", "sha"} -> {"t"}
                 [] a = "ecdsa"    -> {"tot", "mul"}
                 [] a = "elgamal"  -> {"map", "enc", "dec"}
                 [] a = "paillier" -> {"enc", "dec"}
                 [] OTHER          -> {}

\* The value read in the running cycle.
Meas(tag) == MeasValue(tag, Len(ran), cyc + 1)

\* A test name is the list of its "-"-separated parts: "%s-tot" % bits is
\* <<bits, "tot">>, "%s" % n is <<n>>.  No part contains "-".

\* ccm: int(entry["Plen"]) of dict(ccm_param.items() + entry.items()), the
\* record's own Plen before the section header's; json.dump writes the
\* test name as a string.
CcmPlen(e) == <<IF "Plen" \in DOMAIN e THEN e["Plen"] ELSE CcmSectionPlen[section]>>

\* "%s" % (client.getNumSize()*4*8): the curve's size in bits.
Bits(c) == ToString(c * 32)

\* The options of each script that the model tells apart: the -s sections
\* of ccm and the ECC benchmarks; aes's mode, interface and direction;
\* cmc's -m (decript); ecdsa-keypair's -g.
ArgsOf(a) ==
    CASE a = "ccm"     -> [sections : SectionLists, export : BOOLEAN]
      [] a = "aes"     -> [mode : AesModes, register : BOOLEAN, decrypt : BOOLEAN, export : BOOLEAN]
      [] a = "cmc"     -> [decrypt : BOOLEAN, export : BOOLEAN]
      [] a = "ecdsa"   -> [sections : EccSectionLists, export : BOOLEAN]
      [] a = "keypair" -> [sections : EccSectionLists, gen : BOOLEAN, export : BOOLEAN]
      [] a \in PkApps  -> [sizes : PkSizeLists, export : BOOLEAN]
      [] a = "shagen"  -> [lengths : ShaLengthLists, export : BOOLEAN]
      [] OTHER         -> [export : BOOLEAN]

Init ==
    /\ app \in Apps
    /\ file \in FilesOf[app] /\ pos = 1 /\ section = "none" /\ peek = FALSE /\ entry = Empty
    /\ spc = "main" /\ err = "none" /\ upload = FALSE
    /\ args \in ArgsOf(app)
    /\ todo \in CASE app \in {"ccm", "ecdsa", "keypair"} -> {args.sections}
                 [] app = "eccgen"                      -> SetToSeqs(GenCurveNames)
                 [] app \in PkApps                      -> {args.sizes}
                 [] app = "shagen"                      -> {args.lengths}
                 [] OTHER                               -> {GenLengths}
    /\ curve = 0 /\ nb = 1 /\ data = Empty
    /\ cur = Empty /\ cyc = 0 /\ ran = <<>> /\ written = <<>>
    /\ dev = Unset /\ inPlace \in DeviceInPlace /\ out = "" /\ undetected = FALSE
    /\ RD!Init

\* main: switchToSoftwareCrypto with -r, switchToHardwareCrypto otherwise;
\* then enableTimerOutput with -e.
MainSwitch ==
    /\ spc = "main"
    /\ \E hardware \in BOOLEAN : dev' = ExportTimer(SwitchCrypto(dev, app, hardware), args)
    /\ spc' = "start"
    /\ UNCHANGED <<app, file, pos, section, peek, entry, err, upload, args, todo, cur, cyc,
                   ran, written, curve, inPlace, out, undetected, nb, data>>

\* ccm's execute_test: upload = True and enableUpload() when args.output
\* is None; enableTimerOutput() with -e.
CcmStart ==
    /\ spc = "start" /\ app = "ccm"
    /\ \E noOutput \in BOOLEAN :
          /\ upload' = noOutput
          /\ dev' = ExportTimer(IF noOutput THEN enableUpload(dev, app) ELSE dev, args)
    /\ spc' = "section"
    /\ UNCHANGED <<app, file, pos, section, peek, entry, err, args, todo, cur, cyc, ran,
                   written, curve, inPlace, out, undetected, nb, data>>

\* for section in args.sections: selectSection, enablePeekOne, and the
\* for loop's __iter__ (seek); the loop ends with measurements.save().
NextSection ==
    /\ spc = "section" /\ app = "ccm"
    /\ IF todo = <<>>
       THEN spc' = "done" /\ UNCHANGED <<pos, section, peek, entry, todo, err, nb>>
       ELSE LET r == R!SeekFrom(file, Head(todo), 1, Empty)
            IN  /\ section' = Head(todo) /\ peek' = TRUE /\ todo' = Tail(todo) /\ nb' = 1
                /\ pos' = r.pos /\ entry' = r.entry
                /\ IF r.found THEN spc' = "vector" /\ UNCHANGED err
                   ELSE spc' = "failed" /\ err' = "SectionNotFound"
    /\ UNCHANGED <<app, file, upload, args, cur, cyc, ran, written, curve, dev, inPlace, out, undetected, data>>

\* The for loop's next() (the reader's elements are the app's).
NextEntry(e) ==
    IF pos > Len(file) THEN [stop |-> TRUE, pos |-> pos, entry |-> e]
    ELSE CASE app = "ccm"            -> R!NextFrom(file, peek, pos, e, 0)
           [] app \in {"aes", "cmc"} -> RA!NextFrom(file, peek, pos, e, 0)
           [] app = "ecdsa"          -> RS!NextFrom(file, peek, pos, e, 0)
           [] app = "keypair"        -> RK!NextFrom(file, peek, pos, e, 0)
           [] app = "sha"            -> RH!NextFrom(file, peek, pos, e, 0)

\* The element that tells a script's vectors apart (ran records it).
IdOf(a, e) == CASE a = "ecdsa"   -> e["Msg"]
                [] a = "keypair" -> e["d"]
                [] a = "sha"     -> e["Len"]
                [] OTHER         -> e["Count"]
Id(e) == IdOf(app, e)

\* ccm: next(); then setKey(entry["Key"]) and
\* uploadMessage(entry["CT"], entry["Nonce"], entry["Adata"]).
CcmNextVector ==
    /\ spc = "vector" /\ app = "ccm"
    /\ LET r == NextEntry(entry)
       IN  /\ pos' = r.pos /\ entry' = r.entry
           /\ IF r.stop
              THEN spc' = "section" /\ UNCHANGED <<cur, cyc, ran, err, nb, dev>>
              ELSE /\ nb' = nb + 1
                   /\ IF {"Key", "Nonce"} \subseteq DOMAIN r.entry
                      THEN /\ cur' = r.entry /\ cyc' = 0 /\ ran' = Append(ran, Id(r.entry))
                           /\ dev' = [CcmSetKey(dev, r.entry["Key"]) EXCEPT
                                        !.buf = CcmBuf(r.entry["CT"], r.entry["Nonce"], r.entry["Adata"])]
                           /\ spc' = "cycle" /\ UNCHANGED err
                      ELSE /\ dev' = IF "Key" \in DOMAIN r.entry THEN CcmSetKey(dev, r.entry["Key"]) ELSE dev
                           /\ spc' = "failed" /\ err' = "KeyError" /\ UNCHANGED <<cur, cyc, ran>>
    /\ UNCHANGED <<app, file, section, peek, upload, args, todo, written, curve, inPlace, out,
                   undetected, data>>

\* Mutant: range(0, int(args.cycles) + 1).
CcmCycleExtra ==
    /\ spc = "cycle" /\ app = "ccm"
    /\ \E p \in {Plaintext(cur)} \cup (IF DeviceFaulty THEN {"", "bad"} ELSE {}) :
          /\ out' = p
          /\ undetected' = (undetected \/ p # Plaintext(cur))
          /\ cyc' = cyc + 1
          /\ spc' = IF cyc = Cycles THEN "vector" ELSE "cycle"
          /\ data' = add(data, CcmPlen(cur), (nb - 1) :> Meas("t"))
    /\ UNCHANGED <<app, file, pos, section, peek, entry, upload, args, todo, cur, ran,
                   written, curve, dev, inPlace, err, nb>>

\* ccm, after the check: uploadMessage(entry["CT"], entry["Nonce"],
\* entry["Adata"]) again, inside "if upload:".
CcmReuploadSkipped(d, e) == d

CcmReupload(d, e) == [d EXCEPT !.buf = CcmBuf(e["CT"], e["Nonce"], e["Adata"])]

\* ccm: one iteration of the cycle loop: clearTimer, decrypt; with upload
\* the answer's length, downloadData, the check as written:
\*     if entry["Result"] != "Pass":
\*       if len(payload) != 0: raise
\*       else: if entry["Payload"] != b2a_hex(payload): raise
\* then uploadMessage again and the measurement:
\* measurements.add(int(entry["Plen"]), {nb-1: readMeasurements()[1]}).
CcmCycle ==
    /\ spc = "cycle" /\ app = "ccm"
    /\ \E p \in {CcmDecrypt(dev, cur)} \cup (IF DeviceFaulty THEN {"", "bad"} ELSE {}) :
          /\ out' = p
          /\ LET d1 == IF inPlace THEN [dev EXCEPT !.buf = [ccmOut |-> p]] ELSE dev
                 verdict ==
                   IF ~upload \/ cur["Result"] = "Pass" THEN "ok"
                   ELSE IF p # "" THEN "TestVectorFailed"
                   ELSE IF "Payload" \notin DOMAIN cur THEN "KeyError"
                   ELSE IF cur["Payload"] # p THEN "TestVectorFailed"
                   ELSE "ok"
             IN  IF verdict = "ok"
                 THEN /\ undetected' = (undetected \/ p # Plaintext(cur))
                      /\ cyc' = cyc + 1
                      /\ spc' = IF cyc + 1 = Cycles THEN "vector" ELSE "cycle"
                      /\ data' = add(data, CcmPlen(cur), (nb - 1) :> Meas("t"))
                      /\ dev' = IF upload THEN CcmReupload(d1, cur) ELSE d1
                      /\ UNCHANGED err
                 ELSE /\ spc' = "failed" /\ err' = verdict /\ dev' = d1
                      /\ UNCHANGED <<undetected, cyc, data>>
    /\ UNCHANGED <<app, file, pos, section, peek, entry, upload, args, todo, cur, ran,
                   written, curve, inPlace, nb>>

\* aes's execute_test up to its for loop: the mode switch (RuntimeError
\* for an unknown -m), switchToRegister or switchToDMA, enableUpload when
\* args.output is None, enableTimerOutput with -e, CavsReader(args.file,
\* "[AES]", ...) and __iter__.
AesStart ==
    /\ spc = "start" /\ app = "aes"
    /\ IF args.mode \notin {1, 2, 3}
       THEN spc' = "failed" /\ err' = "UnknownMode"
            /\ UNCHANGED <<upload, dev, pos, section, entry>>
       ELSE \E noOutput \in BOOLEAN :
              LET d1 == switchToMode(dev, args.mode)
                  d2 == switchInterface(d1, args.register)
                  r  == RA!SeekFrom(file, "[AES]", 1, Empty)
              IN  /\ upload' = noOutput
                  /\ dev' = ExportTimer(IF noOutput THEN enableUpload(d2, app) ELSE d2, args)
                  /\ section' = "[AES]" /\ pos' = r.pos /\ entry' = r.entry
                  /\ IF r.found THEN spc' = "vector" /\ UNCHANGED err
                     ELSE spc' = "failed" /\ err' = "SectionNotFound"
    /\ UNCHANGED <<app, file, peek, args, todo, cur, cyc, ran, written, curve, inPlace, out, undetected, nb, data>>

\* aes: next(); the loop ends with measurements.save().  Then setKey,
\* setIV and uploadMessage of the vector's Key, IV and Msg.
\* Mutant: uploadMessage left out; the buffer keeps the previous vector's.
AesNextVectorNoUpload ==
    /\ spc = "vector" /\ app = "aes"
    /\ LET r == NextEntry(entry)
       IN  /\ pos' = r.pos /\ entry' = r.entry
           /\ IF r.stop
              THEN spc' = "done" /\ UNCHANGED <<cur, cyc, ran, dev>>
              ELSE /\ cur' = r.entry /\ cyc' = 0 /\ ran' = Append(ran, Id(r.entry))
                   /\ dev' = setIV(setKey(dev, r.entry["Key"]), r.entry["IV"])
                   /\ spc' = "cycle"
    /\ UNCHANGED <<app, file, section, peek, err, upload, args, todo, written, curve, inPlace, out,
                   undetected, nb, data>>

AesNextVector ==
    /\ spc = "vector" /\ app = "aes"
    /\ LET r == NextEntry(entry)
       IN  /\ pos' = r.pos /\ entry' = r.entry
           /\ IF r.stop
              THEN spc' = "done" /\ UNCHANGED <<cur, cyc, ran, dev>>
              ELSE /\ cur' = r.entry /\ cyc' = 0 /\ ran' = Append(ran, Id(r.entry))
                   /\ dev' = [setIV(setKey(dev, r.entry["Key"]), r.entry["IV"])
                                  EXCEPT !.buf = Plain(r.entry["Msg"])]
                   /\ spc' = "cycle"
    /\ UNCHANGED <<app, file, section, peek, err, upload, args, todo, written, curve, inPlace, out,
                   undetected, nb, data>>

\* aes: one iteration of the cycle loop: clearTimer, the PyCrypto suite,
\* encrypt or decrypt (-D) of len(Msg) bytes on the device; with upload the
\* answer's length, downloadData and "if payload != reference: raise";
\* then measurements.add("%s" % len(Msg), readMeasurements()), the
\* timer's one key 1.
AesCycle ==
    /\ spc = "cycle" /\ app = "aes"
    /\ LET op == IF args.decrypt THEN "dec" ELSE "enc"
       IN  \E p \in {AesResult(dev, op)} \cup (IF DeviceFaulty THEN {Bad} ELSE {}) :
             /\ out' = p
             /\ dev' = IF inPlace THEN [dev EXCEPT !.buf = p] ELSE dev
             /\ IF upload /\ p # AesReference(cur, args)
                THEN spc' = "failed" /\ err' = "TestVectorFailed" /\ UNCHANGED <<undetected, cyc, data>>
                ELSE /\ undetected' = (undetected \/ p # AesReference(cur, args))
                     /\ cyc' = cyc + 1
                     /\ spc' = IF cyc + 1 = Cycles THEN "vector" ELSE "cycle"
                     /\ data' = add(data, <<ByteLen(cur["Msg"])>>, 1 :> Meas("t"))
                     /\ UNCHANGED err
    /\ UNCHANGED <<app, file, pos, section, peek, entry, upload, args, todo, cur, ran,
                   written, curve, inPlace, nb>>

\* aesgen: switchTo<mode>Mode, encrypt(i) and the download of the result;
\* the device's state after it, and the result.
GenEncrypt(d, mode) ==
    LET dm == switchToMode(d, mode)
        c  == AesResult(dm, "enc")
    IN  [d |-> IF inPlace THEN [dm EXCEPT !.buf = c] ELSE dm, c |-> c]

\* aesgen: one iteration of its loop over the lengths: clearTimer, fresh
\* key, iv and msg written as Count, Key, IV, Msg; setKey(key),
\* setIV(key), uploadMessage(msg); then CBC, ECB and CTR encryptions, each
\* result written; the loop ends with the output file complete.
GenVector ==
    /\ spc = "start" /\ app = "aesgen"
    /\ IF todo = <<>>
       THEN spc' = "done" /\ UNCHANGED <<todo, written, curve, dev>>
       ELSE LET i   == Head(todo)
                key == "k" \o i
                iv  == "v" \o i
                msg == "m" \o i
                d0  == [setIV(setKey(dev, key), key) EXCEPT !.buf = Plain(msg)]
                cbc == GenEncrypt(d0, 2)
                ecb == GenEncrypt(cbc.d, 1)
                ctr == GenEncrypt(ecb.d, 3)
            IN  /\ written' = Append(written, [Count |-> i, Key |-> key, IV |-> iv, Msg |-> msg,
                                               CBC |-> cbc.c, ECB |-> ecb.c, CTR |-> ctr.c])
                /\ dev' = ctr.d /\ todo' = Tail(todo)
                /\ UNCHANGED spc
    /\ UNCHANGED <<app, file, pos, section, peek, entry, err, upload, args, cur, cyc, ran,
                   curve, inPlace, out, undetected, nb, data>>

\* cmc's execute_test up to its for loop: enableUpload when args.output
\* is None, enableTimerOutput with -e, CavsReader(args.file, "[AES]", ...)
\* and __iter__.
CmcStart ==
    /\ spc = "start" /\ app = "cmc"
    /\ \E noOutput \in BOOLEAN :
          LET r == RA!SeekFrom(file, "[AES]", 1, Empty)
          IN  /\ upload' = noOutput
              /\ dev' = ExportTimer(IF noOutput THEN enableUpload(dev, app) ELSE dev, args)
              /\ section' = "[AES]" /\ pos' = r.pos /\ entry' = r.entry
              /\ IF r.found THEN spc' = "vector" /\ UNCHANGED err
                 ELSE spc' = "failed" /\ err' = "SectionNotFound"
    /\ UNCHANGED <<app, file, peek, args, todo, cur, cyc, ran, written, curve, inPlace, out,
                   undetected, nb, data>>

\* cmc: next(); the loop ends with measurements.save().  Then setKey and
\* uploadMessage of the vector's Key and Msg.
CmcNextVector ==
    /\ spc = "vector" /\ app = "cmc"
    /\ LET r == NextEntry(entry)
       IN  /\ pos' = r.pos /\ entry' = r.entry
           /\ IF r.stop
              THEN spc' = "done" /\ UNCHANGED <<cur, cyc, ran, dev>>
              ELSE /\ cur' = r.entry /\ cyc' = 0 /\ ran' = Append(ran, Id(r.entry))
                   /\ dev' = [setKey(dev, r.entry["Key"]) EXCEPT !.buf = Plain(r.entry["Msg"])]
                   /\ spc' = "cycle"
    /\ UNCHANGED <<app, file, section, peek, err, upload, args, todo, written, curve, inPlace,
                   out, undetected, nb, data>>

\* cmc: one iteration of the cycle loop: clearTimer, decrypt_cmc (-m) or
\* encrypt_cmc, and with upload the other one, the answer's length,
\* downloadData and "if payload != Msg: raise"; then
\* measurements.add("%s" % len(Msg), readMeasurements()).
CmcCycle ==
    /\ spc = "cycle" /\ app = "cmc"
    /\ LET first  == IF args.decrypt THEN "dec" ELSE "enc"
           second == IF args.decrypt THEN "enc" ELSE "dec"
           c1     == CmcResult(dev, first)
           d1     == IF inPlace THEN [dev EXCEPT !.buf = c1] ELSE dev
       IN  IF ~upload
           THEN /\ out' = c1 /\ dev' = d1 /\ cyc' = cyc + 1
                /\ spc' = IF cyc + 1 = Cycles THEN "vector" ELSE "cycle"
                /\ data' = add(data, <<ByteLen(cur["Msg"])>>, 1 :> Meas("t"))
                /\ UNCHANGED <<err, undetected>>
           ELSE \E p \in {CmcResult(d1, second)} \cup (IF DeviceFaulty THEN {Bad} ELSE {}) :
                  /\ out' = p
                  /\ dev' = IF inPlace THEN [d1 EXCEPT !.buf = p] ELSE d1
                  /\ IF p # Plain(cur["Msg"])
                     THEN spc' = "failed" /\ err' = "TestVectorFailed"
                          /\ UNCHANGED <<undetected, cyc, data>>
                     ELSE /\ undetected' = (undetected \/ p # Expected(cur))
                          /\ cyc' = cyc + 1
                          /\ spc' = IF cyc + 1 = Cycles THEN "vector" ELSE "cycle"
                          /\ data' = add(data, <<ByteLen(cur["Msg"])>>, 1 :> Meas("t"))
                          /\ UNCHANGED err
    /\ UNCHANGED <<app, file, pos, section, peek, entry, upload, args, todo, cur, ran,
                   written, curve, inPlace, nb>>

\* ecdsa-sign and ecdsa-keypair: for section in args.sections:
\* selectSection, selectCurve(section) -- setCurve's CURVE_INFO lookup, a
\* KeyError for another name -- and the for loop's __iter__ (seek); the
\* loop ends with measurements.save().
EccNextSection ==
    /\ spc \in {"start", "section"} /\ app \in {"ecdsa", "keypair"}
    /\ IF todo = <<>>
       THEN spc' = "done" /\ UNCHANGED <<pos, section, entry, todo, err, curve, dev, nb>>
       ELSE LET s == Head(todo)
                r == R!SeekFrom(file, s, 1, Empty)
            IN  /\ section' = s /\ todo' = Tail(todo)
                /\ IF s \notin DOMAIN CURVE_INFO
                   THEN spc' = "failed" /\ err' = "KeyError" /\ UNCHANGED <<pos, entry, curve, dev, nb>>
                   ELSE /\ curve' = CURVE_INFO[s] /\ dev' = selectCurve(dev, s)
                        /\ nb' = 1
                        /\ pos' = r.pos /\ entry' = r.entry
                        /\ IF r.found THEN spc' = "vector" /\ UNCHANGED err
                           ELSE spc' = "failed" /\ err' = "SectionNotFound"
    /\ UNCHANGED <<app, file, peek, upload, args, cur, cyc, ran, written, inPlace, out, undetected, data>>

\* ecdsa-sign: next(); then setPrivateKey(d), setEphemeralKey(k) and
\* uploadData of Msg, once per vector.
EcdsaNextVector ==
    /\ spc = "vector" /\ app = "ecdsa"
    /\ LET r == NextEntry(entry)
       IN  /\ pos' = r.pos /\ entry' = r.entry
           /\ IF r.stop
              THEN spc' = "section" /\ UNCHANGED <<cur, cyc, ran, dev, nb>>
              ELSE /\ cur' = r.entry /\ cyc' = 0 /\ ran' = Append(ran, Id(r.entry)) /\ nb' = nb + 1
                   /\ dev' = [setEphemeralKey(setPrivateKey(dev, r.entry["d"]), r.entry["k"])
                                  EXCEPT !.buf = Plain(r.entry["Msg"])]
                   /\ spc' = "cycle"
    /\ UNCHANGED <<app, file, section, peek, err, upload, args, todo, written, curve, inPlace,
                   out, undetected, data>>

\* ecdsa-keypair: next().
KeypairNextVector ==
    /\ spc = "vector" /\ app = "keypair"
    /\ LET r == NextEntry(entry)
       IN  /\ pos' = r.pos /\ entry' = r.entry
           /\ IF r.stop
              THEN spc' = "section" /\ UNCHANGED <<cur, cyc, ran, nb>>
              ELSE /\ cur' = r.entry /\ cyc' = 0 /\ ran' = Append(ran, Id(r.entry)) /\ nb' = nb + 1
                   /\ spc' = "cycle"
    /\ UNCHANGED <<app, file, section, peek, err, upload, args, todo, written, curve, dev,
                   inPlace, out, undetected, data>>

\* The check of both ECC benchmarks: the first operand against the
\* vector's first element, the second against its second; either raises.
\* Then the measurements, giving the writer's data d.
EccCheck(p, e1, e2, d) ==
    /\ out' = p
    /\ IF p[1] # e1 \/ p[2] # e2
       THEN spc' = "failed" /\ err' = "TestVectorFailed" /\ UNCHANGED <<undetected, cyc, data>>
       ELSE /\ undetected' = (undetected \/ p # Expected(cur))
            /\ data' = d
            /\ cyc' = cyc + 1
            /\ spc' = IF cyc + 1 = Cycles THEN "vector" ELSE "cycle"
            /\ UNCHANGED err

\* ecdsa-sign: one iteration of the cycle loop: clearTimer,
\* calculateSignature(len(Msg)), R and S compared with getBigNum of the
\* answer's two regions; then readMeasurements() added as
\* "<bits>-tot" {nb-1: key 1} and "<bits>-mul" {nb-1: key 7}.
EcdsaCycle ==
    /\ spc = "cycle" /\ app = "ecdsa"
    /\ LET d == add(add(data, <<Bits(curve), "tot">>, (nb - 1) :> Meas("tot")),
                    <<Bits(curve), "mul">>, (nb - 1) :> Meas("mul"))
       IN  \E p \in {EcSign(dev)} \cup FaultyPair(EcSign(dev)) : EccCheck(p, cur["R"], cur["S"], d)
    /\ UNCHANGED <<app, file, pos, section, peek, entry, upload, args, todo, cur, ran,
                   written, curve, dev, inPlace, nb>>

\* ecdsa-keypair: one iteration: clearTimer, calculatePublicKey(d) with
\* -g, multiply(d, curve["Gx"], curve["Gy"]) otherwise; Qx and Qy compared;
\* then "<bits>" {nb-1: readMeasurements()[1]} added.
KeypairCycle ==
    /\ spc = "cycle" /\ app = "keypair"
    /\ LET good == IF args.gen THEN EcGenerate(dev, cur["d"])
                   ELSE EcMultiply(dev, cur["d"], Gx(curve), Gy(curve))
           d    == add(data, <<Bits(curve)>>, (nb - 1) :> Meas("t"))
       IN  \E p \in {good} \cup FaultyPair(good) : EccCheck(p, cur["Qx"], cur["Qy"], d)
    /\ UNCHANGED <<app, file, pos, section, peek, entry, upload, args, todo, cur, ran,
                   written, curve, dev, inPlace, nb>>

\* Mutant: setPrivateKey(d) left out before the signature.
EccGenVectorNoPrivateKey ==
    /\ spc = "start" /\ app = "eccgen"
    /\ IF todo = <<>>
       THEN spc' = "done" /\ UNCHANGED <<todo, cyc, written, curve, dev>>
       ELSE LET name   == Head(todo)
                rnd(v) == v \o name \o ToString(cyc)
                d0     == selectCurve(dev, name)
                q      == EcGenerate(d0, rnd("d"))
                b      == EcMultiply(d0, rnd("b"), q[1], q[2])
                d1     == [setEphemeralKey(d0, rnd("k")) EXCEPT !.buf = Plain(rnd("msg"))]
                sig    == EcSign(d1)
            IN  /\ written' = Append(written,
                        [section |-> name, Msg |-> rnd("msg"), d |-> rnd("d"), b |-> rnd("b"),
                         k |-> rnd("k"), Qx |-> q[1], Qy |-> q[2], Bx |-> b[1], By |-> b[2],
                         R |-> sig[1], S |-> sig[2], Result |-> "P"])
                /\ dev' = d1 /\ curve' = CURVE_INFO[name]
                /\ IF cyc + 1 = EccGenNum
                   THEN todo' = Tail(todo) /\ cyc' = 0
                   ELSE cyc' = cyc + 1 /\ UNCHANGED todo
                /\ UNCHANGED spc
    /\ UNCHANGED <<app, file, pos, section, peek, entry, err, upload, args, cur, ran,
                   inPlace, out, undetected, nb, data>>

\* eccgen: one iteration of the inner loop (n of range(num)) for the curve
\* CURVE_INFO.iteritems() gives next, in the dict's order: selectCurve,
\* fresh msg, d, b and k; calculatePublicKey(d) and Qx, Qy read back;
\* multiply(b, qx, qy) and Bx, By; setPrivateKey(d), setEphemeralKey(k),
\* uploadData(msg), calculateSignature and R, S; the record written.
EccGenVector ==
    /\ spc = "start" /\ app = "eccgen"
    /\ IF todo = <<>>
       THEN spc' = "done" /\ UNCHANGED <<todo, cyc, written, curve, dev>>
       ELSE LET name   == Head(todo)
                rnd(v) == v \o name \o ToString(cyc)
                d0     == selectCurve(dev, name)
                q      == EcGenerate(d0, rnd("d"))
                b      == EcMultiply(d0, rnd("b"), q[1], q[2])
                d1     == [setEphemeralKey(setPrivateKey(d0, rnd("d")), rnd("k"))
                              EXCEPT !.buf = Plain(rnd("msg"))]
                sig    == EcSign(d1)
            IN  /\ written' = Append(written,
                        [section |-> name, Msg |-> rnd("msg"), d |-> rnd("d"), b |-> rnd("b"),
                         k |-> rnd("k"), Qx |-> q[1], Qy |-> q[2], Bx |-> b[1], By |-> b[2],
                         R |-> sig[1], S |-> sig[2], Result |-> "P"])
                /\ dev' = d1 /\ curve' = CURVE_INFO[name]
                /\ IF cyc + 1 = EccGenNum
                   THEN todo' = Tail(todo) /\ cyc' = 0
                   ELSE cyc' = cyc + 1 /\ UNCHANGED todo
                /\ UNCHANGED spc
    /\ UNCHANGED <<app, file, pos, section, peek, entry, err, upload, args, cur, ran,
                   inPlace, out, undetected, nb, data>>

\* ccmgen: one iteration of its loop over the lengths, with the key and
\* nonce drawn once before it: fresh payload; setKey(key),
\* uploadMessage(payload, nonce, "00"), encrypt(8, 15 - 13, i, 0), the
\* answer's length and downloadData; the record written to both files.
CcmGenVector ==
    /\ spc = "start" /\ app = "ccmgen"
    /\ IF todo = <<>>
       THEN spc' = "done" /\ UNCHANGED <<todo, written, dev>>
       ELSE LET i   == Head(todo)
                p   == "p" \o i
                d0  == [CcmSetKey(dev, "key") EXCEPT !.buf = CcmBuf(p, "nonce", "00")]
                ct  == CcmEncrypt(d0, 8, 15 - 13, i, 0)
            IN  /\ written' = Append(written,
                        [Key |-> "key", Nonce |-> "nonce", Count |-> i, Plen |-> i,
                         Adata |-> "00", Result |-> "Pass", Payload |-> p, CT |-> ct])
                /\ dev' = IF inPlace THEN [d0 EXCEPT !.buf = ct] ELSE d0
                /\ todo' = Tail(todo)
                /\ UNCHANGED spc
    /\ UNCHANGED <<app, file, pos, section, peek, entry, err, upload, args, cur, cyc, ran,
                   curve, inPlace, out, undetected, nb, data>>

\* elgamal's execute_test up to its loop: selectCurve("[P-192]") (setCurve
\* and EG_SET_CURVE), setExponent(exponent) -- 48 digits, which setBigNum
\* fits into the 4*getNumSize() bytes of P-192 -- and generate().
ElGamalStart ==
    /\ spc = "start" /\ app = "elgamal"
    /\ curve' = CURVE_INFO["[P-192]"]
    /\ dev' = EgGenerate(setExponent(selectCurve(dev, "[P-192]"), "exponent"))
    /\ spc' = "vector"
    /\ UNCHANGED <<app, file, pos, section, peek, entry, err, upload, args, todo, cur, cyc,
                   ran, written, inPlace, out, undetected, nb, data>>

\* pailler's execute_test up to its loop: setKey(P, Q) (PAILLER_SET_P,
\* PAILLER_SET_Q) and generate(); the check runs when args.output is None.
PaillierStart ==
    /\ spc = "start" /\ app = "paillier"
    /\ \E noOutput \in BOOLEAN : upload' = noOutput
    /\ dev' = PaillierSetKey(dev, "KEY_P", "KEY_Q")
    /\ spc' = "vector"
    /\ UNCHANGED <<app, file, pos, section, peek, entry, err, args, todo, cur, cyc,
                   ran, written, curve, inPlace, out, undetected, nb, data>>

\* Both: the next size of range(min, max + 1, step); the loop ends with
\* measurements.save().
PkNextSize ==
    /\ spc = "vector" /\ app \in PkApps
    /\ IF todo = <<>>
       THEN spc' = "done" /\ UNCHANGED <<todo, cur, cyc, ran>>
       ELSE /\ cur' = [size |-> Head(todo)] /\ todo' = Tail(todo)
            /\ ran' = Append(ran, Head(todo)) /\ cyc' = 0 /\ spc' = "cycle"
    /\ UNCHANGED <<app, file, pos, section, peek, entry, err, upload, args, written, curve, dev,
                   inPlace, out, undetected, nb, data>>

\* EG_ENC / EG_DEC / PAILLER_ENC / PAILLER_DEC on the device's buffers:
\* decryption under the key that encrypted gives the message back.
PkEncrypt(d, tag, m) == [pk |-> tag, key |-> d.key, of |-> m]
PkDecrypt(d, tag, c) ==
    IF "pk" \in DOMAIN c /\ c.pk = tag /\ c.key = d.key THEN c.of ELSE [pk |-> "dec", of |-> c]

\* AppECElgamal.encrypt() and decrypt(): EG_ENC and EG_DEC on the mapped
\* point the device holds.
EgEncrypt(d) == [d EXCEPT !.ct = PkEncrypt(d, "eg", d.ct)]
EgDecrypt(d) == [d EXCEPT !.ct = PkDecrypt(d, "eg", d.ct)]

\* elgamal: one iteration of the cycle loop: a plaintext of
\* ((size+3)/4)*8 hex digits set with setBigNum into a 4*getNumSize()
\* byte payload -- an IndexError once it has more words than the curve --
\* then clearTimer, mapToECAlternative, encrypt, decrypt, each followed by
\* the measurement "<size>-map", "-enc", "-dec" {1: measurement[1][0]};
\* the result is not checked.
ElGamalCycle ==
    /\ spc = "cycle" /\ app = "elgamal"
    /\ IF ((cur.size + 3) \div 4) * 4 > 4 * curve
       THEN spc' = "failed" /\ err' = "IndexError" /\ UNCHANGED <<cyc, dev, data>>
       ELSE LET d1 == setPlainText(dev, PkInput(cur, cyc))
                d2 == mapToECAlternative(d1)
                d3 == EgEncrypt(d2)
                tn(x) == <<ToString(cur.size), x>>
            IN  /\ dev' = EgDecrypt(d3)
                /\ data' = add(add(add(data, tn("map"), 1 :> Meas("map")),
                                    tn("enc"), 1 :> Meas("enc")), tn("dec"), 1 :> Meas("dec"))
                /\ cyc' = cyc + 1
                /\ spc' = IF cyc + 1 = Cycles THEN "vector" ELSE "cycle"
                /\ UNCHANGED err
    /\ UNCHANGED <<app, file, pos, section, peek, entry, upload, args, todo, cur, ran,
                   written, curve, inPlace, out, undetected, nb>>

\* paillier: one iteration of the cycle loop: the size-byte plaintext set,
\* clearTimer, encrypt, "<size>-enc", clearTimer, decrypt, "<size>-dec"; when
\* args.output is None, getPlainText()[0:len(input)] != input raises.
PaillierCycle ==
    /\ spc = "cycle" /\ app = "paillier"
    /\ LET d1 == setPlainText(dev, PkInput(cur, cyc))
           d2 == [d1 EXCEPT !.ct = PkEncrypt(d1, "pl", d1.buf)]
           tn(x) == <<ToString(cur.size), x>>
       IN  /\ data' = add(add(data, tn("enc"), 1 :> Meas("enc")), tn("dec"), 1 :> Meas("dec"))
           /\ \E p \in {PkDecrypt(d2, "pl", d2.ct)} \cup (IF DeviceFaulty THEN {Bad} ELSE {}) :
                /\ dev' = [d2 EXCEPT !.buf = p] /\ out' = p
                /\ IF upload /\ p # PkInput(cur, cyc)
                   THEN spc' = "failed" /\ err' = "TestVectorFailed" /\ UNCHANGED <<undetected, cyc>>
                   ELSE /\ undetected' = (undetected \/ p # Expected(cur))
                        /\ cyc' = cyc + 1
                        /\ spc' = IF cyc + 1 = Cycles THEN "vector" ELSE "cycle"
                        /\ UNCHANGED err
    /\ UNCHANGED <<app, file, pos, section, peek, entry, upload, args, todo, cur, ran,
                   written, curve, inPlace, nb>>

\* sha's execute_test up to its for loop: CavsReader(args.file,
\* "[L = 32]", ["Len", "Msg", "MD"]) and __iter__; save() writes the data
\* only when args.output is given.
ShaStart ==
    /\ spc = "start" /\ app = "sha"
    /\ \E noOutput \in BOOLEAN :
          LET r == RH!SeekFrom(file, "[L = 32]", 1, Empty)
          IN  /\ upload' = noOutput
              /\ section' = "[L = 32]" /\ pos' = r.pos /\ entry' = r.entry
              /\ IF r.found THEN spc' = "vector" /\ UNCHANGED err
                 ELSE spc' = "failed" /\ err' = "SectionNotFound"
    /\ UNCHANGED <<app, file, peek, args, todo, cur, cyc, ran, written, curve, dev, inPlace, out,
                   undetected, nb, data>>

\* TestInterface.uploadData(data_length, data): a RuntimeError when
\* data_length > len(data); otherwise its chunks write the first
\* data_length bytes -- none, and no command, for 0.
uploadTooLong(n, msg) == n > Decimal(ByteLen(msg))
uploadData(d, n, msg) == IF n = 0 THEN d ELSE [d EXCEPT !.buf = Plain(msg)]

\* sha: next(); the loop ends with measurements.save().  Then
\* uploadData(int(Len)/8, a2b_hex(Msg)), once per vector.
ShaNextVector ==
    /\ spc = "vector" /\ app = "sha"
    /\ LET r == NextEntry(entry)
       IN  /\ pos' = r.pos /\ entry' = r.entry
           /\ IF r.stop
              THEN spc' = "done" /\ UNCHANGED <<cur, cyc, ran, dev, err>>
              ELSE LET n == Decimal(r.entry["Len"]) \div 8
                   IN  /\ cur' = r.entry /\ cyc' = 0 /\ ran' = Append(ran, Id(r.entry))
                       /\ IF uploadTooLong(n, r.entry["Msg"])
                          THEN spc' = "failed" /\ err' = "RuntimeError" /\ UNCHANGED dev
                          ELSE spc' = "cycle" /\ dev' = uploadData(dev, n, r.entry["Msg"])
                               /\ UNCHANGED err
    /\ UNCHANGED <<app, file, section, peek, upload, args, todo, written, curve, inPlace,
                   out, undetected, nb, data>>

\* sha: one iteration of the cycle loop: clearTimer, calculateHash(n) of
\* the buffer's first n = int(Len)/8 bytes, "if MD != b2a_hex(payload):
\* raise" -- with or without an output file -- then
\* measurements.add("%s" % n, readMeasurements()).
ShaCycle ==
    /\ spc = "cycle" /\ app = "sha"
    /\ LET n == Decimal(cur["Len"]) \div 8
       IN  \E p \in {Digest(dev.buf, n)} \cup (IF DeviceFaulty THEN {Bad} ELSE {}) :
             /\ out' = p
             /\ dev' = IF inPlace THEN [dev EXCEPT !.buf = p] ELSE dev
             /\ IF cur["MD"] # p
                THEN spc' = "failed" /\ err' = "TestVectorFailed" /\ UNCHANGED <<undetected, cyc, data>>
                ELSE /\ undetected' = (undetected \/ p # Expected(cur))
                     /\ cyc' = cyc + 1
                     /\ spc' = IF cyc + 1 = Cycles THEN "vector" ELSE "cycle"
                     /\ data' = add(data, <<ToString(n)>>, 1 :> Meas("t"))
                     /\ UNCHANGED err
    /\ UNCHANGED <<app, file, pos, section, peek, entry, upload, args, todo, cur, ran,
                   written, curve, inPlace, nb>>

\* Mutant: Len written in bytes, "Len = %i" % i.
ShaGenVectorLenBytes ==
    /\ spc = "start" /\ app = "shagen"
    /\ IF todo = <<>>
       THEN spc' = "done" /\ UNCHANGED <<todo, written, err>>
       ELSE LET i == Head(todo) IN
            IF i = 0 THEN spc' = "failed" /\ err' = "ValueError" /\ UNCHANGED <<todo, written>>
            ELSE LET msg == "m" \o ToString(i)
                 IN  /\ written' = Append(written, [Len |-> i, Msg |-> msg, MD |-> Digest(Plain(msg), i)])
                     /\ todo' = Tail(todo) /\ UNCHANGED <<spc, err>>
    /\ UNCHANGED <<app, file, pos, section, peek, entry, upload, args, cur, cyc, ran, curve,
                   dev, inPlace, out, undetected, nb, data>>

\* shagen: one iteration of its loop over range(min, max + 1, step), after
\* the "[L = 32]" header: msg = ("%x" % random.getrandbits(i*8)).zfill(i*2)
\* -- getrandbits(0) is a ValueError -- its hashlib digest, and the record
\* "Len = i*8", Msg, MD written.  The device takes no part.
ShaGenVector ==
    /\ spc = "start" /\ app = "shagen"
    /\ IF todo = <<>>
       THEN spc' = "done" /\ UNCHANGED <<todo, written, err>>
       ELSE LET i == Head(todo) IN
            IF i = 0 THEN spc' = "failed" /\ err' = "ValueError" /\ UNCHANGED <<todo, written>>
            ELSE LET msg == "m" \o ToString(i)
                 IN  /\ written' = Append(written, [Len |-> i * 8, Msg |-> msg, MD |-> Digest(Plain(msg), i)])
                     /\ todo' = Tail(todo) /\ UNCHANGED <<spc, err>>
    /\ UNCHANGED <<app, file, pos, section, peek, entry, upload, args, cur, cyc, ran, curve,
                   dev, inPlace, out, undetected, nb, data>>

ScriptNext ==
        \/ MainSwitch
        \/ CcmStart \/ NextSection \/ CcmNextVector \/ CcmCycle
        \/ AesStart \/ AesNextVector \/ AesCycle
        \/ GenVector
        \/ CmcStart \/ CmcNextVector \/ CmcCycle
        \/ EccGenVector \/ CcmGenVector
        \/ EccNextSection \/ EcdsaNextVector \/ KeypairNextVector \/ EcdsaCycle \/ KeypairCycle
        \/ ElGamalStart \/ PaillierStart \/ PkNextSize \/ ElGamalCycle \/ PaillierCycle
        \/ ShaStart \/ ShaNextVector \/ ShaCycle \/ ShaGenVector

\* An analysis of the measurements: the script ran to its end and saved
\* its data, which it does only when an output file is given (-o, so no
\* upload).  A script that raised leaves the file it opened empty.
Analysis ==
    /\ spc = "done" /\ ~upload /\ MeasTags(app) # {}
    /\ RD!ReaderNext
    /\ UNCHANGED <<app, file, pos, section, peek, entry, spc, err, upload, args, todo, cur,
                   cyc, ran, written, curve, nb, dev, inPlace, out, undetected>>

Next == (ScriptNext /\ UNCHANGED reader) \/ Analysis

Spec == Init /\ [][Next]_vars

-----------------------------------------------------------------------------
(* Properties                                                             *)

\* The records of section s of file f as the reader of script a would
\* present them, if it were right.
RecordsIn(a, f, s) ==
    CASE a = "ccm"     -> R!Records(f, s)
      [] a = "ecdsa"   -> RS!Records(f, s)
      [] a = "keypair" -> RK!Records(f, s)
      [] a = "sha"     -> RH!Records(f, s)
      [] OTHER         -> RA!Records(f, s)

\* The identifying values of the records of a list of sections, in file order.
RECURSIVE IdsIn(_, _, _)
IdsIn(a, f, l) ==
    IF l = <<>> THEN <<>>
    ELSE LET rs == RecordsIn(a, f, Head(l))
         IN  [i \in DOMAIN rs |-> IdOf(a, rs[i])] \o IdsIn(a, f, Tail(l))

\* The section lists each file-reading script may be given: its -s
\* arguments, or the one section it names.
ListsOf(a) == CASE a = "ccm"                  -> SectionLists
                [] a \in {"ecdsa", "keypair"} -> EccSectionLists
                [] a \in {"aes", "cmc"}       -> {<<"[AES]">>}
                [] a = "sha"                  -> {<<"[L = 32]">>}

\* The ids each reading script, file and section list call for, computed
\* once from the constants.
ExpectedIds == [a \in Apps \cap {"ccm", "ecdsa", "keypair", "aes", "cmc", "sha"} |->
                  [f \in FilesOf[a] |-> [l \in ListsOf(a) |-> IdsIn(a, f, l)]]]

\* A benchmark that completed ran every vector of every selected section
\* ([AES] for aes and cmc), once, in file order -- no vector skipped at a
\* section change or at the end of the file, none run twice; elgamal and
\* pailler ran every size of their range.
EveryVectorRun ==
    spc = "done" =>
        \/ app \in {"ccm", "ecdsa", "keypair"} /\ ran = ExpectedIds[app][file][args.sections]
        \/ app \in {"aes", "cmc"} /\ ran = ExpectedIds[app][file][<<"[AES]">>]
        \/ app = "sha" /\ ran = ExpectedIds[app][file][<<"[L = 32]">>]
        \/ app \in PkApps /\ ran = args.sizes
        \/ app \in {"aesgen", "eccgen", "ccmgen", "shagen"}

\* The methods' name and the apps' enums (SWITCH_UPLOAD of the CCM
\* application, AES_SWITCH_UPLOAD of the AES application, whose wrapper
\* aes-benchmark and cmc-benchmark use): once enableUpload has returned,
\* the device's upload switch of the running application is on.
UploadSwitchReachesApp ==
    (upload /\ spc \notin {"main", "start"} /\ app \in {"ccm", "aes", "cmc"}) =>
        (IF app = "ccm" THEN dev.ccmUpload ELSE dev.aesUpload) = 1

\* The upload check agrees with the device: "Test Vector ... failed" is
\* raised only when the device's answer is not what the vector calls for,
\* and, with upload on, a wrong answer never passes it.
CheckMatchesDevice ==
    /\ err = "TestVectorFailed" => out # Expected(cur)
    /\ (upload \/ app \in {"ecdsa", "keypair", "sha"}) => ~undetected

\* A device answer that is not what the device computes from its state.
FaultyAnswer(o) ==
    IF app \in {"ecdsa", "keypair"} THEN Bad \in {o[1], o[2]} ELSE o = Bad

\* A correct device fails a benchmark's check only through what an earlier
\* cycle left in its buffer: aes-benchmark and sha256-benchmark upload the
\* message once per vector, so only a device that writes its results back
\* fails them, and only after the first cycle; cmc-benchmark's round trip
\* decrypts the buffer, so it fails only a device that does not.  The ECC
\* and Paillier checks, which set every input before each cycle, never
\* fail it: the mode switch, setKey, setIV, the uploads and the setters
\* give the device exactly what the vector's reference is computed from.
CorrectDeviceFailsOnlyOnStaleBuffer ==
    (err = "TestVectorFailed" /\ app # "ccm" /\ ~FaultyAnswer(out)) =>
        \/ app \in {"aes", "sha"} /\ inPlace /\ cyc > 0
        \/ app = "cmc" /\ ~inPlace

\* With upload on (args.output unset) every decryption ccm-decrypt-benchmark
\* times runs on the vector's own key, ciphertext, nonce and adata: on a
\* device that decrypts in place, the uploadMessage after each check puts
\* back the buffer the previous cycle overwrote, and a vector's first
\* cycle runs on what CcmNextVector loaded, not on the previous vector's.
CcmTimesOwnVector == (app = "ccm" /\ spc = "cycle" /\ upload) => CcmHolds(dev, cur)

\* Every vector aes-generate-cavs writes is consistent: its CBC, ECB and
\* CTR values are the encryptions of its Msg under its Key and IV -- what
\* aes-benchmark (through PyCrypto) and any other reader of the file take
\* them to be.
VectorsConsistent ==
    \A i \in DOMAIN written :
        LET w == written[i]
        IN  /\ w.CBC = Cipher("enc", 2, w.Key, w.IV, Plain(w.Msg))
            /\ w.ECB = Cipher("enc", 1, w.Key, w.IV, Plain(w.Msg))
            /\ w.CTR = Cipher("enc", 3, w.Key, w.IV, Plain(w.Msg))

\* Every vector ecdsa-generate-cavs, sha256-generate-cavs and
\* ccm-generate-cavs write is consistent: Qx, Qy are d * G on the
\* section's curve, Bx, By are b * (Qx, Qy), R, S the signature of Msg
\* under d and k; MD is the digest of the int(Len)/8 bytes of Msg that
\* sha256-benchmark uploads and hashes; CT is the CCM encryption of
\* Payload under Key and Nonce with the Adata the record names -- what
\* ecdsa-sign, ecdsa-keypair, sha256 and ccm-decrypt check against.
GeneratedVectorsConsistent ==
    \A i \in DOMAIN written :
        LET w == written[i]
        IN  /\ app = "eccgen" =>
                  LET s  == CURVE_INFO[w.section]
                      dv == [eccCurve |-> s, priv |-> w.d, eph |-> w.k, buf |-> Plain(w.Msg)]
                  IN  /\ <<w.Qx, w.Qy>> = EcMultiply(dv, w.d, Gx(s), Gy(s))
                      /\ <<w.Bx, w.By>> = EcMultiply(dv, w.b, w.Qx, w.Qy)
                      /\ <<w.R, w.S>> = EcSign(dv)
            /\ app = "shagen" => Digest(Plain(w.Msg), w.Len \div 8) = w.MD
            /\ app = "ccmgen" =>
                  w.CT = CcmEncrypt([key |-> w.Key, buf |-> CcmBuf(w.Payload, w.Nonce, w.Adata)],
                                    8, 2, w.Plen, 0)

\* Every (test name, key, place in list) of the writer's data.
MeasEntries == UNION {UNION {{<<t, k, i>> : i \in DOMAIN data[t][k]} : k \in DOMAIN data[t]}
                         : t \in DOMAIN data}

\* MeasurementWriter keeps every measurement: when a script has run to
\* its end, the data json.dump saves holds each timer value of each cycle
\* of each vector exactly once -- none dropped when two vectors, sections
\* or cycles give the same test name and key, none stored twice.
MeasurementsKept ==
    spc = "done" =>
        LET vals == {data[e[1]][e[2]][e[3]] : e \in MeasEntries}
        IN  /\ vals = {MeasValue(t, v, c) : t \in MeasTags(app), v \in 1..Len(ran), c \in 1..Cycles}
            /\ Cardinality(MeasEntries) = Cardinality(vals)

\* The analysis of the saved file (MeasurementReader.loadAndSum): each
\* algorithm's column of each test is, position by position, the sum of
\* that position over the test's keys, once per load -- what the script
\* measured, with no key's values dropped, doubled or shifted.
SumKeepsTotals == RD!SumKeepsTotals

\* The analysis of the saved file (MeasurementReader.loadAndAggregate):
\* column algorithm-phase of each key size holds every value the script
\* measured for "size-phase", once per load, and nothing else.
AggregateKeepsAll == RD!AggregateKeepsAll

=============================================================================
