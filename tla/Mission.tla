------------------------------ MODULE Mission -------------------------------
(***************************************************************************)
(* AP_Mission: running a mission.                                          *)
(*                                                                         *)
(* A mission is a list of commands: nav commands, which are flown one      *)
(* after the other, do commands, which are run on the way to the next nav  *)
(* command, and jumps, which are taken a number of times.  Two searches    *)
(* follow the jumps: the one for the next nav command counts them, the one *)
(* for the next do command does not.  All of it runs in the main thread: a *)
(* call is one action.                                                     *)
(***************************************************************************)
EXTENDS Integers, Sequences

CONSTANTS
    Commands,   \* the commands that missions are made of
    Missions,   \* missions in storage at the start, without home
    MaxTracked, \* AP_MISSION_MAX_NUM_DO_JUMP_COMMANDS
    MaxJumps,   \* max_loops of get_next_cmd()
    MaxSearch,  \* max_loops of advance_current_nav_cmd()
    KeepCounters,   \* Option::DONT_ZERO_COUNTER
    MaxCount,   \* bound: jumps are counted up to here
    HangAfter,  \* bound: a loop that goes on for longer does not end
    MaxOrders   \* bound: calls other than update()

\* refused: a nav command that the vehicle does not start.
Command(kind, target, times) == [kind |-> kind, target |-> target, times |-> times]
Forever == -1       \* AP_MISSION_JUMP_REPEAT_FOREVER
TimesMax == 32767   \* AP_MISSION_JUMP_TIMES_MAX
Home == Command("nav", 0, 0)
None == -1          \* AP_MISSION_CMD_INDEX_NONE

ASSUME MissionAssumption ==
    /\ \A c \in Commands : c.kind \in {"nav", "refused", "do", "jump"} /\ c.times <= MaxCount
    /\ Missions \subseteq Seq(Commands) /\ KeepCounters \in BOOLEAN
    /\ {MaxTracked, MaxJumps, MaxSearch, HangAfter, MaxOrders} \subseteq Nat \ {0}

VARIABLES
    cmds,       \* the commands in storage, home first, as many as _cmd_total
    run,        \* the state of the mission
    orders      \* bound: calls that may still be made

missionVars == <<cmds, run, orders>>

total  == Len(cmds)
Cmd(i) == cmds[i + 1]

\* _flags, _nav_cmd.index, _do_cmd.index and _jump_tracking.  The last three are
\* history: the do commands on the way to the nav command, those that were started (as
\* long as the way is known), and whether it is known: it passes no jump with a limit, and
\* is still in storage.
Idle ==
    [state |-> "stopped", nav |-> None, navLoaded |-> FALSE,
     doc |-> None, doLoaded |-> FALSE, allDone |-> FALSE, jumps |-> <<>>,
     way |-> <<>>, did |-> <<>>, known |-> TRUE]

Slot == [index : Nat, times : Nat]
Runs ==
    [state : {"running", "stopped", "complete", "hung"},
     nav : Nat \cup {None}, navLoaded : BOOLEAN,
     doc : Nat \cup {None}, doLoaded : BOOLEAN, allDone : BOOLEAN, jumps : Seq(Slot),
     way : Seq(Nat), did : Seq(Nat), known : BOOLEAN]
-----------------------------------------------------------------------------
(* Jumps                                                                   *)

Slots(J, i) == {k \in 1 .. Len(J) : J[k].index = i}
HasRoom(J)  == Len(J) < MaxTracked
Track(J, i, n) == Append(J, [index |-> i, times |-> n])

get_jump_times_run(J, i) ==
    IF Slots(J, i) # {} THEN J[CHOOSE k \in Slots(J, i) : TRUE].times
    ELSE IF HasRoom(J) THEN 0 ELSE TimesMax

\* It gives the jump a slot, too.
Tracked(J, i) == IF Slots(J, i) = {} /\ HasRoom(J) THEN Track(J, i, 0) ELSE J

\* Mutant: the count is not kept.
increment_jump_times_run_Not(J, i) == J

increment_jump_times_run(J, i) ==
    IF Slots(J, i) # {}
    THEN [k \in 1 .. Len(J) |-> IF J[k].index = i /\ J[k].times < MaxCount
                                THEN [J[k] EXCEPT !.times = @ + 1] ELSE J[k]]
    ELSE IF HasRoom(J) THEN Track(J, i, 1) ELSE J

\* A jump that has been taken often enough starts from 0 again.
Zeroed(J, i) ==
    IF KeepCounters THEN J
    ELSE [k \in 1 .. Len(J) |-> IF J[k].index = i THEN [J[k] EXCEPT !.times = 0] ELSE J[k]]

\* Where a search has got to: a command, the jumps that may still be followed, the first
\* that was followed, and what is tracked.
Searches ==
    [at : Nat, loops : 0 .. MaxJumps, first : Nat \cup {None}, jumps : Seq(Slot), known : BOOLEAN]

\* A jump is taken or passed.
Follow(x, counts) ==
    LET limited == Cmd(x.at).times # Forever
        taken == ~limited \/ get_jump_times_run(x.jumps, x.at) < Cmd(x.at).times
        K == IF limited THEN Tracked(x.jumps, x.at) ELSE x.jumps
    IN  [at |-> IF taken THEN Cmd(x.at).target ELSE x.at + 1,
         loops |-> x.loops - 1,
         first |-> IF x.first = None THEN x.at ELSE x.first,
         jumps |-> IF ~counts THEN K
                   ELSE IF taken THEN increment_jump_times_run(K, x.at)
                   ELSE Zeroed(K, x.at),
         known |-> x.known /\ ~limited]

get_next_cmd(i, J, counts) ==
    LET Outcome(x, found) == [found |-> found, at |-> x.at, jumps |-> x.jumps, known |-> x.known]
        Loops(x) == x.loops = 0 \/ (~counts /\ x.first = x.at)
        Search[x \in Searches] ==
            IF x.at >= total THEN Outcome(x, FALSE)
            ELSE IF Cmd(x.at).kind # "jump" THEN Outcome(x, TRUE)
            ELSE IF Loops(x) \/ Cmd(x.at).target \notin 1 .. total - 1 THEN Outcome(x, FALSE)
            ELSE Search[Follow(x, counts)]
    IN  Search[[at |-> i, loops |-> MaxJumps, first |-> None, jumps |-> J, known |-> TRUE]]
-----------------------------------------------------------------------------
(* Moving on                                                               *)

complete(r) == [r EXCEPT !.state = "complete"]
OrComplete(a) == IF a.ok THEN a.run ELSE complete(a.run)

\* What a search leaves in the state, whatever it has found.
Searched(r, s) == [r EXCEPT !.jumps = s.jumps, !.known = @ /\ s.known]

\* Mutant: each do command takes the place of the one before.
SetLastDo(r, i) ==
    [r EXCEPT !.way = Append(@, i), !.doc = i, !.doLoaded = TRUE, !.did = <<i>>]

\* A do command is set if none is yet.
SetDo(r, i) ==
    LET q == [r EXCEPT !.way = Append(@, i)]
    IN  IF r.doLoaded THEN q
        ELSE [q EXCEPT !.doc = i, !.doLoaded = TRUE, !.did = <<i>>]

\* The current do command is stopped; no nav command is loaded.
NoCommand(r) ==
    [r EXCEPT !.doc = None, !.doLoaded = FALSE, !.allDone = FALSE, !.navLoaded = FALSE,
              !.way = <<>>, !.did = <<>>, !.known = TRUE]

\* The loop of advance_current_nav_cmd().  max_loops is 8 bits wide: when the loop ends
\* because of it, it has become 255, and what follows takes 0 for that case.
FindNav(r, i) ==
    LET Loop[x \in [run : Runs, from : Nat, loops : 0 .. MaxSearch]] ==
            LET s == get_next_cmd(x.from, x.run.jumps, TRUE)
                q == Searched(x.run, s)
                Goon(y) == Loop[[run |-> y, from |-> s.at + 1, loops |-> x.loops - 1]]
            IN  IF x.loops = 0 THEN [ok |-> TRUE, run |-> x.run]
                ELSE IF ~s.found THEN [ok |-> FALSE, run |-> q]
                ELSE IF Cmd(s.at).kind = "do" THEN Goon(SetDo(q, s.at))
                ELSE IF Cmd(s.at).kind = "refused" THEN Goon([q EXCEPT !.nav = s.at])
                ELSE [ok |-> x.loops # 1, run |-> [q EXCEPT !.nav = s.at, !.navLoaded = TRUE]]
    IN  Loop[[run |-> r, from |-> i, loops |-> MaxSearch]]

advance_current_nav_cmd(r, starting_index) ==
    LET from == IF starting_index > 0 THEN starting_index ELSE IF r.nav = None THEN 1 ELSE r.nav + 1
        Done(a) == IF a.ok THEN [a EXCEPT !.run.allDone = ~a.run.doLoaded] ELSE a
    IN  IF r.state # "running" \/ r.navLoaded THEN [ok |-> FALSE, run |-> r]
        ELSE Done(FindNav(NoCommand(r), from))

\* It does not go past a nav command.
get_next_do_cmd(i, J) ==
    LET s == get_next_cmd(i, J, FALSE) IN [s EXCEPT !.found = @ /\ Cmd(s.at).kind = "do"]

advance_current_do_cmd(r) ==
    LET s == get_next_do_cmd(IF r.doc = None THEN 1 ELSE r.doc + 1, r.jumps)
        q == [r EXCEPT !.jumps = s.jumps]
    IN  IF r.allDone THEN r
        ELSE IF ~s.found THEN [q EXCEPT !.allDone = TRUE]
        ELSE [q EXCEPT !.doc = s.at, !.doLoaded = TRUE,
                       !.did = IF r.known THEN Append(@, s.at) ELSE <<>>]
-----------------------------------------------------------------------------
(* Calls                                                                   *)

start == OrComplete(advance_current_nav_cmd([Idle EXCEPT !.state = "running"], 0))

\* set_current_cmd() of a mission that does not run: it loads the commands and starts
\* none.  The loop has no bound of its own.
Preload(r, i) ==
    LET Loop[x \in [run : Runs, from : Nat, loops : 0 .. HangAfter]] ==
            LET s == get_next_cmd(x.from, x.run.jumps, TRUE)
                q == Searched(x.run, s)
            IN  IF x.loops = 0 THEN [x.run EXCEPT !.state = "hung"]
                ELSE IF ~s.found THEN [q EXCEPT !.nav = None]
                ELSE IF Cmd(s.at).kind = "do"
                THEN Loop[[run |-> SetDo(q, s.at), from |-> s.at + 1, loops |-> x.loops - 1]]
                ELSE [q EXCEPT !.nav = s.at, !.navLoaded = TRUE, !.allDone = ~q.doLoaded,
                               !.state = "stopped"]
    IN  Loop[[run |-> r, from |-> i, loops |-> HangAfter]]

set_current_cmd(r, i) ==
    IF i >= total \/ total = 1 THEN r
    ELSE LET q == [NoCommand(r) EXCEPT !.jumps = IF i = 0 \/ r.state = "complete" THEN <<>> ELSE @]
             from == IF i = 0 THEN 1 ELSE i
         IN  IF r.state = "running" THEN OrComplete(advance_current_nav_cmd(q, from))
             ELSE Preload(q, from)

\* Mutant: a nav command that is active is taken for one that has ended.
ActiveSkips(r) == IF r.doLoaded /\ r.doc # None THEN r.doc ELSE r.nav + 1

\* The command that is started again: the do command, "which will also load the nav
\* command for us", or the nav command.
Active(r) == IF r.doLoaded /\ r.doc # None THEN r.doc ELSE r.nav

resume(r) ==
    LET q == [r EXCEPT !.state = "running"] IN
    IF r.state = "complete" \/ r.nav \notin 0 .. total - 1 THEN start
    ELSE IF r.doLoaded \/ r.navLoaded THEN set_current_cmd(q, Active(r)) ELSE q

\* update(): navDone and doDone are what verify_command() says of the commands.
Updated(r, navDone, doDone) ==
    LET a == IF ~r.navLoaded \/ r.nav = None THEN advance_current_nav_cmd(r, 0)
             ELSE IF navDone THEN advance_current_nav_cmd([r EXCEPT !.navLoaded = FALSE], 0)
             ELSE [ok |-> TRUE, run |-> r]
    IN  IF ~a.ok THEN complete(a.run)
        ELSE IF a.run.doLoaded THEN [a.run EXCEPT !.doLoaded = ~doDone]
        ELSE advance_current_do_cmd(a.run)
-----------------------------------------------------------------------------
(* Actions                                                                 *)

update_mission(navDone, doDone) ==
    /\ run.state # "hung"
    /\ run' = IF run.state = "running" /\ total # 0 THEN Updated(run, navDone, doDone) ELSE run
    /\ UNCHANGED <<cmds, orders>>

Order == orders > 0 /\ run.state # "hung" /\ orders' = orders - 1

Resume == Order /\ run' = resume(run) /\ UNCHANGED cmds
\* The vehicle leaves or enters the mode in which it flies missions, or is told where to
\* go on.
Control ==
    /\ Order
    /\ \/ run' = start
       \/ run' = [run EXCEPT !.state = "stopped"]
       \/ \E i \in 0 .. total : run' = set_current_cmd(run, i)
    /\ UNCHANGED cmds

\* The mission changes; the way to the nav command is no longer known.
Changed == run' = [run EXCEPT !.known = FALSE]

truncate == Order /\ (\E n \in 0 .. total - 1 : cmds' = SubSeq(cmds, 1, n)) /\ Changed
add_cmd ==
    /\ Order /\ Changed
    /\ \E c \in Commands : cmds' = (IF total = 0 THEN <<Home>> ELSE cmds) \o <<c>>
replace_cmd ==
    /\ Order /\ Changed
    /\ \E i \in 2 .. total, c \in Commands : cmds' = [cmds EXCEPT ![i] = c]

\* Refused while the mission runs and the vehicle is armed.
clear_mission ==
    /\ Order /\ cmds' = <<>>
    /\ run' = [run EXCEPT !.nav = None, !.doc = None, !.navLoaded = FALSE, !.doLoaded = FALSE,
                          !.state = "stopped", !.known = FALSE]

\* Also by the watchdog, when the main thread hangs.
Reboot ==
    /\ Order \/ (run.state = "hung" /\ UNCHANGED orders)
    /\ run' = Idle /\ UNCHANGED cmds

MissionInit ==
    /\ \E m \in Missions : cmds = <<Home>> \o m
    /\ run = Idle /\ orders = MaxOrders

MissionNext ==
    \/ \E navDone, doDone \in BOOLEAN : update_mission(navDone, doDone)
    \/ Resume \/ Control \/ truncate \/ add_cmd \/ replace_cmd \/ clear_mission \/ Reboot

\* update() is called at 10 Hz, and the vehicle gets to where a nav command sends it.
MissionFairness == WF_missionVars(\E doDone \in BOOLEAN : update_mission(TRUE, doDone))

MissionSpec == MissionInit /\ [][MissionNext]_missionVars /\ MissionFairness
-----------------------------------------------------------------------------
(* Properties                                                              *)

\* The do commands that advance_current_do_cmd() finds are those that the search for
\* the nav command has passed, each once and in this order, as long as that search
\* passed no jump with a limit: the count has changed since, and the two differ.
DoInOrder == run.known => \E n \in 0 .. Len(run.way) : run.did = SubSeq(run.way, 1, n)

\* resume() goes on to the nav command that was interrupted, although it starts again
\* from the do command that is active, before it: if the way to it is known (no jump with
\* a limit lies on it, and the mission has not been changed since), and if there are no
\* more commands than advance_current_nav_cmd() may pass.
ResumeKeepsTarget ==
    [][Resume /\ run.state # "complete" /\ run.known /\ run.navLoaded
          /\ Cmd(run.nav).kind = "nav" /\ total <= MaxSearch
       => run'.nav = run.nav /\ run'.state = "running"]_missionVars

\* A mission that runs is completed, and set_current_cmd() returns, unless there is a jump
\* that is taken for ever: loops in loops, jumps forward, counters that are reset and a full
\* _jump_tracking included.
Endless == \E i \in 1 .. total - 1 : Cmd(i).kind = "jump" /\ Cmd(i).times = Forever
MissionCompletes == []<>(run.state \in {"stopped", "complete"} \/ Endless \/ cmds = <<>>)
-----------------------------------------------------------------------------
(* What a comment in the code says, and the code does not do               *)

\* resume() "continues the mission execution from where we last left off" also if a jump
\* with a limit lies between the active do command and the nav command.  It does not: the
\* search counts the jump a second time, and takes the branch that the mission was to take
\* one lap later.  Checked with two calls, one that gives the mission its nav command and
\* resume(), so that the mission cannot have been changed in between.
ResumeContinues ==
    [][Resume /\ run.state # "complete" /\ run.navLoaded
          /\ Cmd(run.nav).kind = "nav" /\ total <= MaxSearch
       => run'.nav = run.nav /\ run'.state = "running"]_missionVars
=============================================================================
