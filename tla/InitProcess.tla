------------------------------- MODULE InitProcess -------------------------------
(***************************************************************************)
(* The first process (userland/init/init.c): it sets the file system up,   *)
(* reads the inittab, runs the services and restarts those that are to be  *)
(* restarted.  One action is one call of main's, or one turn of a loop     *)
(* that forks or waits.  wait and waitpid are those of this kernel: they   *)
(* return at once, with a child that has ended or with an error.  fork may *)
(* fail or not; the kernel's table has no handler for it yet, so today it  *)
(* fails.  Left out: the message of the day, the services' arguments and   *)
(* environment (the arguments are pointers into parse_inittab's own        *)
(* frame), and the log's text.                                             *)
(***************************************************************************)
EXTENDS Integers, Sequences, SequencesExt, FiniteSetsExt

CONSTANTS
    Inittabs,          \* contents of /etc/inittab: sequences of lines
    OldDirs,           \* what is on the disk: sets of directories
    MAX_SERVICES,
    MaxPid             \* bound on process numbers

VARIABLES
    ini,       \* services, the place in main, log_fd
    alive,     \* children that run
    zombies,   \* children that ended and are not waited for
    disk,      \* directories and nodes
    nextpid,   \* next process number
    started    \* history: the services started, in order, and what ran then

initVars == <<ini, alive, zombies, disk, nextpid, started>>

Dirs == {"/proc", "/sys", "/dev", "/tmp", "/var", "/var/log", "/run", "/etc", "/bin", "/home", "/mnt"}
Nodes == {"null", "zero", "tty0", "tty1", "stdin", "stdout", "stderr", "sda", "random", "urandom"}
Types == {"boot", "once", "respawn", "shutdown"}
NoPid == -1
Count == Len(ini.services)
LineAt(place) == ini.at = place

\* The log is opened before its directory is made: sys_open makes it on the way.
main ==
    /\ LineAt("main")
    /\ ini' = [ini EXCEPT !.at = "mount", !.log = TRUE] /\ disk' = disk \union {"/var", "/var/log"}
    /\ UNCHANGED <<alive, zombies, nextpid, started>>

\* What cannot be mounted is reported, no more.
mount_filesystems ==
    /\ LineAt("mount")
    /\ ini' = [ini EXCEPT !.at = "dev"] /\ disk' = disk \union Dirs
    /\ UNCHANGED <<alive, zombies, nextpid, started>>

setup_dev ==
    /\ LineAt("dev")
    /\ ini' = [ini EXCEPT !.at = "inittab"] /\ disk' = disk \union Nodes
    /\ UNCHANGED <<alive, zombies, nextpid, started>>

\* A line is <<type, path>>, << >> is a comment or an empty line, and a line of
\* one field is dropped; a word that is no type means once.
parse_type(word) == IF word \in Types THEN word ELSE "once"
Service(type) == [type |-> type, pid |-> NoPid, running |-> FALSE]
parse_inittab ==
    /\ LineAt("inittab")
    /\ \E tab \in Inittabs :
        LET lines == SelectSeq(tab, LAMBDA l : Len(l) > 1)
            kept == SubSeq(lines, 1, Min({MAX_SERVICES, Len(lines)}))
        IN  ini' = [ini EXCEPT !.at = "boot", !.services = [i \in DOMAIN kept |-> Service(parse_type(kept[i][1]))]]
    /\ UNCHANGED <<alive, zombies, disk, nextpid, started>>

\* fork may fail: then the service is as it was (failed is a history).
Spawned(st, i) ==
    \/ /\ nextpid <= MaxPid
       /\ ini' = [st EXCEPT !.services[i] = [@ EXCEPT !.pid = nextpid, !.running = TRUE]]
       /\ alive' = alive \union {nextpid} /\ nextpid' = nextpid + 1
       /\ started' = Append(started, [svc |-> i, pid |-> nextpid, beside |-> alive])
    \/ /\ ini' = [st EXCEPT !.failed = @ \union {i}]
       /\ UNCHANGED <<alive, nextpid, started>>
spawn_service(st, i) == Spawned(st, i) /\ UNCHANGED <<zombies, disk>>

\* The loops look for the next service of their type.
NextOf(type) == {j \in DOMAIN ini.services : j >= ini.i /\ ini.services[j].type = type}
Done(place) == [ini EXCEPT !.at = place, !.i = 1]

run_boot_services ==
    /\ LineAt("boot")
    /\ IF NextOf("boot") = {} THEN ini' = Done("once") /\ UNCHANGED <<alive, zombies, disk, nextpid, started>>
       ELSE LET j == Min(NextOf("boot"))
            IN  \/ /\ spawn_service([ini EXCEPT !.at = "bootwait", !.i = j], j) /\ alive' # alive
                \/ /\ spawn_service([ini EXCEPT !.i = j + 1], j) /\ alive' = alive

\* waitpid takes the child if it has ended, and fails if it still runs: either
\* way the service is said not to run, and keeps its pid.
boot_wait ==
    /\ LineAt("bootwait")
    /\ zombies' = zombies \ {ini.services[ini.i].pid}
    /\ ini' = [ini EXCEPT !.at = "boot", !.i = @ + 1, !.services[ini.i].running = FALSE]
    /\ UNCHANGED <<alive, disk, nextpid, started>>

StartAll(type, then) ==
    IF NextOf(type) = {} THEN ini' = Done(then) /\ UNCHANGED <<alive, zombies, disk, nextpid, started>>
    ELSE LET j == Min(NextOf(type)) IN spawn_service([ini EXCEPT !.i = j + 1], j)

\* Mutant of run_once_services: all but the boot services are started.
run_once_services_all ==
    /\ LineAt("once")
    /\ IF NextOf("once") \union NextOf("respawn") = {} THEN StartAll("once", "respawn")
       ELSE LET j == Min(NextOf("once") \union NextOf("respawn")) IN spawn_service([ini EXCEPT !.i = j + 1], j)

run_once_services == LineAt("once") /\ StartAll("once", "respawn")
start_respawn_services == LineAt("respawn") /\ StartAll("respawn", "default")

spawn_default_shell ==
    /\ LineAt("default")
    /\ IF Count > 0 THEN ini' = Done("reap") /\ UNCHANGED <<alive, zombies, disk, nextpid, started>>
       ELSE spawn_service([ini EXCEPT !.at = "reap", !.services = <<[type |-> "respawn", pid |-> 0, running |-> FALSE]>>], 1)

\* Mutant of reap_loop: a service that ended is noted, and not started again.
reap_loop_notes ==
    /\ LineAt("reap") /\ zombies # {}
    /\ LET pid == Max(zombies)
       IN  /\ zombies' = zombies \ {pid}
           /\ ini' = [ini EXCEPT !.services = [j \in DOMAIN @ |-> IF @[j].pid = pid THEN Service(@[j].type) ELSE @[j]]]
    /\ UNCHANGED <<alive, disk, nextpid, started>>

\* wait gives the youngest child that ended (process_create puts a process before
\* the others), or fails and is called again; the first service with its pid is the one.
reap_loop ==
    /\ LineAt("reap") /\ zombies # {}
    /\ LET pid == Max(zombies)
           known == {j \in DOMAIN ini.services : ini.services[j].pid = pid}
           j == Min(known)
           off == [ini EXCEPT !.services[j] = [@ EXCEPT !.running = FALSE, !.pid = NoPid]]
       IN  /\ zombies' = zombies \ {pid} /\ UNCHANGED disk
           /\ IF known = {} THEN UNCHANGED <<ini, alive, nextpid, started>>
              ELSE IF ini.services[j].type = "respawn" THEN Spawned(off, j)
              ELSE ini' = off /\ UNCHANGED <<alive, nextpid, started>>

\* A process ends, by itself or killed.
Ends(pid) ==
    /\ pid \in alive
    /\ alive' = alive \ {pid} /\ zombies' = zombies \union {pid}
    /\ UNCHANGED <<ini, disk, nextpid, started>>

InitStep ==
    \/ main \/ mount_filesystems \/ setup_dev \/ parse_inittab
    \/ run_boot_services \/ boot_wait \/ run_once_services \/ start_respawn_services \/ spawn_default_shell
    \/ reap_loop

InitInit ==
    /\ \E dirs \in OldDirs : disk = dirs
    /\ ini = [at |-> "main", i |-> 1, services |-> << >>, log |-> FALSE, failed |-> {}]
    /\ alive = {} /\ zombies = {} /\ nextpid = 2 /\ started = << >>
InitNext == InitStep \/ \E pid \in alive : Ends(pid)
\* init runs whenever it has something to do; that a process ends is not assumed.
InitFairness == WF_initVars(InitStep)

\* Services are started in the order boot, once, respawn and within each as the
\* inittab has them, whatever ends meanwhile; a boot or once service is started
\* once, and a respawn service again only after it ended: it never runs twice at the
\* same time.  Every child, running or not waited for, is in the table under one
\* service, so that its end will be noticed, also a boot service that run_boot_services
\* did not wait for; a service that is said to run is a child.
ServicesSound ==
    /\ \A pid \in alive \union zombies : \E i \in DOMAIN ini.services :
            /\ ini.services[i].pid = pid /\ (ini.services[i].running \/ ini.services[i].type = "boot")
            /\ \A j \in DOMAIN ini.services \ {i} : ini.services[j].pid # pid
    /\ \A i \in DOMAIN ini.services : ini.services[i].running => ini.services[i].pid \in alive \union zombies
    /\ \A j, k \in DOMAIN started :
            LET type(n) == ini.services[started[n].svc].type
                place(n) == CASE type(n) = "boot" -> 1 [] type(n) = "once" -> 2 [] type(n) = "respawn" -> 3
                again(n) == \E m \in 1 .. n - 1 : started[m].svc = started[n].svc
            IN  j < k =>
                /\ place(j) <= place(k) /\ (place(j) = place(k) /\ ~again(k) => started[j].svc <= started[k].svc)
                /\ started[j].svc = started[k].svc => type(k) = "respawn" /\ started[j].pid \notin started[k].beside

\* Once booted, a respawn service that ended will run again, unless a fork for it
\* failed, after which nobody tries again, or younger children keep ending: wait
\* tells of those first (reap_loop, spawn_service, wait_any_child).
RespawnsComeBack ==
    \A i \in 1 .. MAX_SERVICES :
        (LineAt("reap") /\ i <= Count /\ ini.services[i].type = "respawn" /\ ini.services[i].pid \in zombies)
            ~> (i \in ini.failed \/ (i <= Count /\ (\/ ini.services[i].pid \in alive
                                                    \/ \E pid \in zombies : pid > ini.services[i].pid)))
================================================================================
