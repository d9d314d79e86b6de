----------------------------- MODULE MCMission ------------------------------
(***************************************************************************)
(* The upload of a fence (MCFenceUpload), and a mission that runs: every   *)
(* mission of two or three commands, and a few longer ones in which loops  *)
(* are nested, or more jumps than can be tracked, or end a search.         *)
(***************************************************************************)
EXTENDS MCFenceUpload, Mission

VARIABLE part   \* the one that moves

Nav        == Command("nav", 0, 0)
NavRefused == Command("refused", 0, 0)
Do         == Command("do", 0, 0)
Jump(target, times) == Command("jump", target, times)

MCCommands == {Nav, NavRefused, Do} \cup {Jump(t, n) : t \in {1, 3}, n \in {1, Forever}}

MCMissions ==
    UNION {[1 .. n -> MCCommands] : n \in 2 .. 3} \cup
    {<<Do, Do, Do, Jump(1, 1), Nav>>,
     <<Nav, Jump(1, 1), Do, Jump(1, 1), Nav>>,
     <<Jump(3, 1), Nav, Do, Jump(1, 1), Nav>>,
     <<Nav, Do, Jump(1, Forever), Do, Nav>>,
     <<Nav, Do, NavRefused, Do, Nav>>,
     <<Nav, Jump(1, 1), Jump(1, 1), Jump(1, 1), Nav>>}

MCInit ==
    /\ part \in {"fence", "mission"}
    /\ Init
    /\ IF part = "mission" THEN MissionInit /\ stored = <<>>
       ELSE cmds = <<Home>> /\ run = Idle /\ orders = 0

MCNext ==
    /\ UNCHANGED part
    /\ \/ part = "fence" /\ Next /\ UNCHANGED missionVars
       \/ part = "mission" /\ MissionNext /\ UNCHANGED vars

\* In the part that does not move nothing fair is enabled: no upload has begun, and no
\* mission runs.
MCSpec ==
    MCInit /\ [][MCNext]_<<vars, missionVars, part>> /\ WF_vars(update) /\ MissionFairness
=============================================================================
