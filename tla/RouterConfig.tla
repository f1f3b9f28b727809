---------------------------- MODULE RouterConfig ----------------------------
(***************************************************************************)
(* How a program starts, up to PrepareStart: the options of its command    *)
(* line (wConfig.inl), conf.xml (GetBaseConf of RouterConfig.cpp and       *)
(* AgentConfig.cpp) and, for RouterSvrd, svr.xml and qos.xml.              *)
(***************************************************************************)
EXTENDS AgentConfig

(* An option: letters, of which h, p and s take the rest of the argument   *)
(* for their value, or the next one.  What follows a value is not looked   *)
(* at, and an argument that is no option is refused.                       *)
Letter == {"v", "d", "h", "x"}      \* p and s are as h, "?" is as v, x is any other
Read1(word) == {j \in DOMAIN word : \A i \in 1 .. j - 1 : word[i] # "h"}
Letters(word) == {word[j] : j \in Read1(word)}
TakesNext(word) == word # << >> /\ Len(word) \in Read1(word) /\ word[Len(word)] = "h"

(* An argument is [option : BOOLEAN, word : Seq(Letter)].  The result is   *)
(* the set of the letters that were read, or {"x"} for -1.                 *)
GetOption(argv) ==
    LET read[i \in 1 .. Len(argv) + 2] ==
            IF i = Len(argv) + 1 THEN {}
            ELSE IF i > Len(argv) THEN {"x"}        \* the value of the last is missing
            ELSE LET letters == Letters(argv[i].word)
                     rest    == read[IF TakesNext(argv[i].word) THEN i + 2 ELSE i + 1]
                 IN  IF ~argv[i].option \/ "x" \in letters \cup rest THEN {"x"} ELSE letters \cup rest
    IN  read[1]

(* conf.xml: [file, root, log : BOOLEAN, lines : a sequence of "whole",    *)
(* "unsized" and "torn", server : "whole", "torn", "missing"].  A line     *)
(* without MAX_FILE_SIZE gives NULL to atoi(); one with it is given the    *)
(* default size.                                                           *)
Crashes(conf) == \E i \in DOMAIN conf.lines : conf.lines[i] = "unsized"

(* RouterSvrd exits without SERVER; AgentSvrd goes on, with nothing to     *)
(* listen on.                                                              *)
RouterBaseConf(conf) ==
    IF ~conf.file \/ ~conf.root \/ ~conf.log THEN "exit"
    ELSE IF Crashes(conf) THEN "crash"
    ELSE IF conf.server = "missing" THEN "exit" ELSE "on"
AgentBaseConf(conf) ==
    IF ~conf.file \/ ~conf.root \/ ~conf.log THEN "exit"
    ELSE IF Crashes(conf) THEN "crash" ELSE "on"

(* The address is that of SERVER, whatever -h and -p have said.            *)
Listens(conf) == conf.server = "whole"

(* RouterConfig::GetQosConf is AgentConfig's, word for word.               *)
RouterQosConf(qos) == GetQosConf(qos)

(* main(): the files are read in this order, each may end the process.     *)
RouterStarts(conf, svrs, qos) ==
    RouterBaseConf(conf) = "on" /\ svrs # "missing" /\ ~Refused(RouterQosConf(qos))

-----------------------------------------------------------------------------
(* A router that starts has an address to listen on, unless SERVER is torn, *)
(* and settings that the engine can use; where a router starts, so does an  *)
(* agent with the same conf.xml.                                            *)
StartsWhole(conf, svrs, qos) ==
    RouterStarts(conf, svrs, qos) =>
        /\ Listens(conf) \/ conf.server = "torn"
        /\ Usable(RouterQosConf(qos)) /\ AgentBaseConf(conf) = "on"

(* A value is never read as an option, and nothing that is read makes up   *)
(* for an argument that is refused.                                        *)
OptionsRead(argv) ==
    "x" \notin GetOption(argv) =>
        /\ GetOption(argv) \subseteq UNION {Letters(argv[i].word) : i \in DOMAIN argv}
        /\ argv # << >> => argv[1].option /\ Letters(argv[1].word) \subseteq GetOption(argv)
        /\ (argv # << >> /\ TakesNext(argv[Len(argv)].word)) =>
              Len(argv) > 1 /\ TakesNext(argv[Len(argv) - 1].word)
=============================================================================
