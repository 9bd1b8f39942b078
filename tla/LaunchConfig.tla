---------------------------- MODULE LaunchConfig ----------------------------
(***************************************************************************)
(* How a launch settles its configuration from the command line, from      *)
(* config.txt and from what the operator answers (treeminer/src/resolve.rs,*)
(* appconfig.rs, config.rs).  A launch may rewrite config.txt, so Resolve   *)
(* returns the file it leaves beside the configuration.                    *)
(*                                                                         *)
(* A text that code parses as a number is a record: no text, text that     *)
(* stoi refuses, or the number stoi reads at its front.  A command-line    *)
(* option is a set of at most one value.  Addresses, paths and names are    *)
(* members of small sets; the empty text is Empty.                         *)
(***************************************************************************)
EXTENDS Integers, Sequences

CONSTANTS
    Addresses,      \* the texts is_valid_ethereum_address accepts
    NullAddress,    \* the all-zero address, which it accepts too
    Binds,          \* the texts is_valid_dashboard_bind accepts
    DefaultBind,
    DefaultJournal,
    MaxPort,        \* 65535
    DefaultPort,    \* 42069
    MaxKib,         \* 100000000, MAX_CONFIGURED_KIB
    MaxFee,         \* 1000
    MaxQuiesce,     \* 60000, QUIESCE_MAX_MS
    DefaultQuiesce, \* 5000
    DefaultCpuMax,  \* 100
    DefaultStep,    \* 1000, margin_kib
    DefaultMax,     \* 5000, max_kib
    LogicalThreads  \* available_parallelism, 0 when unknown

ASSUME ConfigAssumption ==
    /\ NullAddress \in Addresses
    /\ DefaultBind \in Binds
    /\ DefaultJournal # ""
    /\ DefaultPort \in 1..MaxPort
    /\ DefaultQuiesce \in 0..MaxQuiesce
    /\ DefaultCpuMax \in 0..MaxKib
    /\ DefaultStep \in 0..MaxKib
    /\ DefaultMax \in 0..MaxKib
    /\ MaxFee \in Nat
    /\ LogicalThreads \in Nat

Empty == ""
NoText == [is |-> "none", value |-> 0]
Junk == [is |-> "junk", value |-> 0]
Numeral(n) == [is |-> "number", value |-> n]

\* Some(v) of an Option-valued flag, or else what the file or the default says.
Given(flag, otherwise) == IF flag = {} THEN otherwise ELSE CHOOSE v \in flag : TRUE

\* std::stoi: the number at the front of the text, if there is one.
Stoi(text) == IF text.is = "number" THEN {text.value} ELSE {}

\* A file that does not exist reads as one with no key in it.
NoFile ==
    [exists |-> FALSE, account |-> Empty, eco |-> Empty, fee |-> NoText,
     mode |-> Empty, step |-> NoText, max |-> NoText,
     journal |-> Empty, bind |-> Empty, port |-> NoText]

Texts == {NoText, Junk} \cup [is : {"number"}, value : Int]

Files ==
    [exists : BOOLEAN, account : STRING, eco : STRING, fee : Texts,
     mode : STRING, step : Texts, max : Texts,
     journal : STRING, bind : STRING, port : Texts]

CommandLines ==
    [miner_addr : SUBSET STRING, total_dev_fee : SUBSET Int, eco_dev_addr : SUBSET STRING,
     save_config : BOOLEAN, test_fixed_diff : BOOLEAN, platform_mode : BOOLEAN,
     mqtt_broker : STRING, margin_mode : SUBSET STRING, margin : SUBSET Int,
     margin_max : SUBSET Int, dashboard_port : SUBSET Int, dashboard_bind : SUBSET STRING,
     journal_path : SUBSET STRING, gpu_streams : SUBSET Int, cpu_workers : SUBSET Int,
     cpu_max_difficulty : SUBSET Int, difficulty_quiesce_ms : SUBSET Int,
     display : SUBSET STRING]

Operators ==
    [interactive : BOOLEAN, account : Seq(STRING), fee : Seq(Texts), display : STRING]

(***************************************************************************)
(* AppConfig: the identity.  The operator's answers to a prompt are a      *)
(* sequence; the input ends after the last one.                            *)
(***************************************************************************)
IsValidDevfee(fee) == fee \in 0..MaxFee

\* A prompt is repeated until its answer is valid; {} is the end of the input.
FirstOf(answers, valid) ==
    {answers[i] : i \in {j \in DOMAIN answers :
                            /\ answers[j] \in valid
                            /\ \A k \in 1..(j - 1) : answers[k] \notin valid}}

PromptForEip55Address(answers) == FirstOf(answers, Addresses)

PromptForDevfeePermillage(answers) ==
    {a.value : a \in FirstOf(answers, {Numeral(fee) : fee \in 0..MaxFee})}

\* What load does with the file it read, writing its two keys among `keys'.
Repaired(file, operator, keys) ==
    LET account == IF file.account \in Addresses THEN {file.account}
                   ELSE PromptForEip55Address(operator.account)
        stored == {v \in Stoi(file.fee) : IsValidDevfee(v)}
        fee == IF stored # {} THEN stored ELSE PromptForDevfeePermillage(operator.fee)
        asked == (file.account \notin Addresses) \/ stored = {}
    IN  IF account = {} \/ fee = {}
        THEN [ok |-> FALSE, file |-> file, asked |-> asked]
        ELSE [ok |-> TRUE,
              account |-> Given(account, Empty),
              eco |-> IF file.eco \in Addresses THEN file.eco ELSE Empty,
              fee |-> Given(fee, 0),
              file |-> [keys EXCEPT !.exists = TRUE,
                                    !.account = Given(account, Empty),
                                    !.fee = Numeral(Given(fee, 0))],
              asked |-> asked]

\* Mutant: a load that writes its two keys without having read the others.
LoadForgets(file, operator) == Repaired(file, operator, NoFile)

\* load: read what is there, ask for what is missing or invalid, write the
\* address and the fee back among the keys that were read.
Load(file, operator) == Repaired(file, operator, file)

\* try_load: take whatever is there and validate nothing.
TryLoad(file) ==
    [ok |-> TRUE, account |-> file.account, eco |-> file.eco,
     fee |-> Given(Stoi(file.fee), 0), file |-> file, asked |-> FALSE]

\* The identity a launch starts from, before the command line overrides it.
LoadIdentity(cli, file, operator) ==
    CASE cli.test_fixed_diff ->
           [ok |-> TRUE, account |-> NullAddress, eco |-> NullAddress, fee |-> 0,
            file |-> file, asked |-> FALSE]
      [] ~cli.test_fixed_diff /\ (cli.miner_addr = {} \/ cli.total_dev_fee = {}) ->
           Load(file, operator)
      [] OTHER -> TryLoad(file)

\* What the identity flags must satisfy on their own.
IdentityFlagsValid(cli) ==
    /\ \A fee \in cli.total_dev_fee : IsValidDevfee(fee)
    /\ cli.eco_dev_addr \subseteq Addresses
    /\ cli.miner_addr \subseteq Addresses

\* And what must hold of the outcome: try_load has validated nothing.
IdentityValid(cli, identity) ==
    /\ Given(cli.eco_dev_addr, identity.eco) \in Addresses \cup {Empty}
    /\ Given(cli.miner_addr, identity.account) \in Addresses
    /\ IsValidDevfee(Given(cli.total_dev_fee, identity.fee))

\* --saveConfig writes the identity through a ConfigManager that has not
\* loaded the file: the three keys are the whole new file.
Save(identity) ==
    [NoFile EXCEPT !.exists = TRUE, !.account = identity.account,
                   !.eco = identity.eco, !.fee = Numeral(identity.fee)]

(***************************************************************************)
(* The settings that are not the identity.                                 *)
(***************************************************************************)
MarginModes == {"off", "fixed", "auto"}

\* read_positive_int: the flag or else the file; no text keeps the default.
ReadPositiveInt(text, flag, default) ==
    LET read == Given({Numeral(v) : v \in flag}, text)
    IN  CASE read.is = "none" -> {default}
          [] read.is = "junk" -> {}
          [] OTHER -> {v \in {read.value} : v \in 0..MaxKib}

\* The port: a flag out of range is fatal, a bad one in the file is ignored.
DashboardPort(cli, file) ==
    IF cli.dashboard_port # {} THEN {p \in cli.dashboard_port : p \in 1..MaxPort}
    ELSE {Given({p \in Stoi(file.port) : p \in 1..MaxPort}, DefaultPort)}

\* A text of the flag or of the file, or else the default.
TextOr(flag, text, default) ==
    LET chosen == Given(flag, text) IN IF chosen = Empty THEN default ELSE chosen

\* The bind address: a flag is taken as it is, an empty key of the file is not.
DashboardBind(cli, file) ==
    Given(cli.dashboard_bind, TextOr({}, file.bind, DefaultBind))

\* A count of workers beyond the machine's threads is refused, unless their
\* number is unknown.
WorkersValid(n) == n >= 0 /\ (LogicalThreads > 0 => n <= LogicalThreads)

NumericFlagsValid(cli) ==
    /\ cli.gpu_streams \subseteq 1..2
    /\ \A n \in cli.cpu_workers : WorkersValid(n)
    /\ \A n \in cli.cpu_max_difficulty : n \in 0..MaxKib
    /\ \A n \in cli.difficulty_quiesce_ms : n \in 0..MaxQuiesce

\* resolve_display_mode with resolve_prompt_selection: the full-screen
\* terminal is for an interactive operator only, and "prompt" asks one.
ResolveDisplay(requested, interactive, answer) ==
    CASE requested = "logs" \/ ~interactive -> "logs"
      [] requested = "prompt" /\ interactive -> IF answer = "2" THEN "logs" ELSE "terminal"
      [] OTHER -> "terminal"

Settings(cli, file, operator) ==
    LET mode == TextOr(cli.margin_mode, file.mode, "off")
        step == ReadPositiveInt(file.step, cli.margin, DefaultStep)
        max == ReadPositiveInt(file.max, cli.margin_max, DefaultMax)
        port == DashboardPort(cli, file)
        bind == DashboardBind(cli, file)
        display == Given(cli.display, "logs")
    IN  IF \/ display \notin {"logs", "terminal", "prompt"}
           \/ mode \notin MarginModes
           \/ step = {} \/ max = {} \/ port = {}
           \/ bind \notin Binds
           \/ ~NumericFlagsValid(cli)
        THEN {}
        ELSE {[mode |-> mode,
               step |-> Given(step, 0),
               max |-> Given(max, 0),
               initial_margin |-> IF mode = "fixed" THEN Given(step, 0) ELSE 0,
               journal |-> TextOr(cli.journal_path, file.journal, DefaultJournal),
               bind |-> bind,
               port |-> Given(port, 0),
               streams |-> Given(cli.gpu_streams, 1),
               workers |-> Given(cli.cpu_workers, 0),
               cpu_max |-> Given(cli.cpu_max_difficulty, DefaultCpuMax),
               quiesce |-> Given(cli.difficulty_quiesce_ms, DefaultQuiesce),
               display |-> ResolveDisplay(display, operator.interactive, operator.display)]}

(***************************************************************************)
(* resolve.  The settings are read before the identity is loaded, so a bad *)
(* one leaves the file alone; the identity flags are checked after Load    *)
(* has rewritten it, and the broker after --saveConfig has.                *)
(***************************************************************************)
Resolve(cli, file, operator) ==
    LET settings == Settings(cli, file, operator)
        identity == LoadIdentity(cli, file, operator)
        final == [account |-> Given(cli.miner_addr, identity.account),
                  eco |-> Given(cli.eco_dev_addr, identity.eco),
                  fee |-> Given(cli.total_dev_fee, identity.fee)]
        Refused(left, asked) == [ok |-> FALSE, file |-> left, asked |-> asked]
    IN  IF settings = {} THEN Refused(file, FALSE)
        ELSE IF ~identity.ok \/ ~IdentityFlagsValid(cli) \/ ~IdentityValid(cli, identity)
             THEN Refused(identity.file, identity.asked)
             ELSE LET left == IF cli.save_config THEN Save(final) ELSE identity.file
                  IN  IF cli.platform_mode /\ cli.mqtt_broker = Empty
                      THEN Refused(left, identity.asked)
                      ELSE [ok |-> TRUE, file |-> left, asked |-> identity.asked,
                            identity |-> final,
                            settings |-> CHOOSE s \in settings : TRUE]

\* parse_device_list: what is not a device of this machine is skipped, and
\* an empty selection is every device.
ParseDeviceList(texts, count) ==
    LET named == {d \in UNION {Stoi(t) : t \in texts} : d \in 0..(count - 1)}
    IN  IF named = {} THEN 0..(count - 1) ELSE named
=============================================================================
