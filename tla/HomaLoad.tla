------------------------------ MODULE HomaLoad ------------------------------
(***************************************************************************)
(* Loading and unloading the module (homa_plumbing.c: homa_load,           *)
(* homa_unload, homa_net_start, homa_net_exit, homa_timer_main; and        *)
(* homa_utils.c: homa_init, homa_destroy).  Every registration or          *)
(* allocation is a part that is either in place or not.  homa_load puts    *)
(* the parts in place one after the other, any of them may fail, and the   *)
(* error path takes down those whose init_ flag is set.  Meanwhile the     *)
(* threads already started run, namespaces come and go, and users open     *)
(* sockets and install queueing disciplines; the kernel refuses to unload  *)
(* a module that is in use.                                                *)
(***************************************************************************)
EXTENDS Naturals, Sequences, FiniteSets

CONSTANTS
    Nets,           \* the network namespaces
    LoadConfigs     \* the choices for "fails", the parts that may fail

VARIABLES
    fails,              \* the parts whose set-up may fail this time
    held,               \* the parts in place
    init,               \* the init_ flags of homa_load that are true
    loader,             \* [pc, left]: the thread in homa_load or homa_unload
    net,                \* the namespaces that have a struct homa_net
    users,              \* what holds a reference on the module
    timer_kthread,      \* where the timer thread is
    timer_thread_exit,  \* the request that it exit
    timer_thread_done,  \* its completion
    hrtimer,            \* whether the high-resolution timer is armed
    pacer_kthread       \* where the pacer's thread is

loadVars == <<fails, held, init, loader, net, users, timer_kthread,
              timer_thread_exit, timer_thread_done, hrtimer, pacer_kthread>>
timerVars == <<timer_kthread, timer_thread_exit, timer_thread_done, hrtimer>>
userVars == <<fails, net, users>>

(* What homa_init allocates, in its order.                                 *)
InitOrder == <<"qshared", "pacer", "grant", "peertab", "socktab", "skb">>

(* The order in which homa_load puts the parts in place.                   *)
LoadOrder == <<"tt">> \o InitOrder \o
    <<"proto", "proto6", "protosw", "protosw6", "protocol", "protocol6",
      "metrics", "tx_lat", "sysctl", "offload", "qdisc", "net_ops", "timer",
      "hook">>

(* Mutant: the pacer is freed after the queueing information it reads.     *)
DestroyOrderSwapped ==
    <<"socktab", "grant", "qshared", "pacer", "peertab", "skb">>

(* The order of homa_destroy's cleanups, which its comment says matters.   *)
DestroyOrder == <<"socktab", "grant", "pacer", "qshared", "peertab", "skb">>

HomaParts == {DestroyOrder[i] : i \in DOMAIN DestroyOrder}

ErrorTail ==
    <<"protocol", "protocol6", "protosw", "protosw6", "proto", "proto6">>

(* The error path of homa_load, every cleanup under its own flag.          *)
ErrorOrder ==
    <<"timer", "qdisc", "offload", "sysctl", "metrics", "tx_lat", "net_ops">>
    \o DestroyOrder \o ErrorTail

UnloadOrder ==
    <<"hook", "timer", "qdisc", "offload", "sysctl", "metrics", "tx_lat",
      "net_ops", "protocol", "protosw", "protocol6", "protosw6", "proto",
      "proto6">> \o DestroyOrder \o <<"tt">>

Parts == {LoadOrder[i] : i \in DOMAIN LoadOrder}

(* The parts the pacer's thread uses (homa_pacer_xmit reads the queueing   *)
(* limits), those that homa_timer and a namespace's exit use.              *)
PacerUses == {"qshared", "pacer"}
TimerUses == HomaParts
NetUses == {"socktab", "peertab"}

Init ==
    /\ fails \in LoadConfigs
    /\ held = {}
    /\ init = {}
    /\ loader = [pc |-> "loading", left |-> LoadOrder]
    /\ net = {}
    /\ users = {}
    /\ timer_kthread = "none"
    /\ timer_thread_exit = FALSE
    /\ timer_thread_done = FALSE
    /\ hrtimer = FALSE
    /\ pacer_kthread = "none"

At(pc, p) == loader.pc = pc /\ loader.left # <<>> /\ Head(loader.left) = p

(***************************************************************************)
(* Loading.  The flag init_homa covers all of homa_init's parts and is set *)
(* only after the last one.                                                *)
(***************************************************************************)
Flags(p) == IF p = "skb" THEN HomaParts
            ELSE IF p \in HomaParts THEN {} ELSE {p}

Placed(p) ==
    /\ At("loading", p)
    /\ held' = held \cup {p}
    /\ init' = init \cup Flags(p)
    /\ loader' = [loader EXCEPT !.left = Tail(@)]

(* A failure: homa_skb_init may leave some page pools and homa_offload_init*)
(* one of its two registrations behind.                                    *)
Fails(p) ==
    /\ At("loading", p)
    /\ p \in fails
    /\ \/ UNCHANGED held
       \/ p \in {"skb", "offload"} /\ held' = held \cup {p}
    /\ loader' = [pc |-> "error",
                  left |-> SelectSeq(ErrorOrder, LAMBDA q : q \in init)]
    /\ UNCHANGED <<init, net, users, fails, timerVars, pacer_kthread>>

Alloc(p) ==
    \/ Placed(p) /\ UNCHANGED <<userVars, timerVars, pacer_kthread>>
    \/ Fails(p)

homa_qdisc_shared_alloc == Alloc("qshared")

homa_pacer_alloc ==
    \/ /\ Placed("pacer")
       /\ pacer_kthread' = "run"
       /\ UNCHANGED <<userVars, timerVars>>
    \/ Fails("pacer")

homa_grant_alloc == Alloc("grant")

homa_peer_alloc_peertab == Alloc("peertab")

homa_socktab_init == Alloc("socktab")

homa_skb_init == Alloc("skb")

homa_init ==
    \/ homa_qdisc_shared_alloc \/ homa_pacer_alloc \/ homa_grant_alloc
    \/ homa_peer_alloc_peertab \/ homa_socktab_init \/ homa_skb_init

homa_metrics_init == Alloc("metrics")

homa_tx_lat_init == Alloc("tx_lat")

homa_offload_init == Alloc("offload")

homa_qdisc_register == Alloc("qdisc")

Register ==
    \E p \in {"proto", "proto6", "protosw", "protosw6", "protocol",
              "protocol6", "sysctl", "tt", "hook"} : Alloc(p)

(* register_pernet_subsys runs homa_net_start in every namespace there is. *)
RegisterNets ==
    \/ /\ Placed("net_ops")
       /\ net' \in SUBSET Nets
       /\ UNCHANGED <<fails, users, timerVars, pacer_kthread>>
    \/ Fails("net_ops")

StartTimer ==
    \/ /\ Placed("timer")
       /\ timer_kthread' = "start"
       /\ UNCHANGED <<userVars, timer_thread_exit, timer_thread_done,
                      hrtimer, pacer_kthread>>
    \/ Fails("timer")

Finished ==
    /\ loader.left = <<>>
    /\ loader' = [loader EXCEPT !.pc =
          CASE @ = "loading" -> "loaded"
            [] @ = "error" -> "failed"
            [] @ = "unloading" -> "unloaded"
            [] OTHER -> @]
    /\ loader' # loader
    /\ UNCHANGED <<held, init, userVars, timerVars, pacer_kthread>>

homa_load ==
    \/ homa_init \/ Register \/ RegisterNets \/ StartTimer
    \/ homa_metrics_init \/ homa_tx_lat_init \/ homa_offload_init
    \/ homa_qdisc_register

(***************************************************************************)
(* Taking down, in the error path and in homa_unload.                      *)
(***************************************************************************)
Leaving == loader.pc \in {"error", "unloading"} /\ loader.left # <<>>

Removed(p) ==
    /\ Leaving
    /\ Head(loader.left) = p
    /\ held' = held \ {p}
    /\ loader' = [loader EXCEPT !.left = Tail(@)]
    /\ UNCHANGED init

Remove(p) == Removed(p) /\ UNCHANGED <<userVars, timerVars, pacer_kthread>>

(* wake_up_process and then wait_for_completion.                           *)
StopTimer ==
    /\ Leaving
    /\ Head(loader.left) = "timer"
    /\ ~timer_thread_exit
    /\ timer_thread_exit' = TRUE
    /\ timer_kthread' = IF timer_kthread = "asleep" THEN "woken"
                        ELSE timer_kthread
    /\ UNCHANGED <<held, init, loader, userVars, timer_thread_done, hrtimer,
                   pacer_kthread>>

TimerStopped ==
    /\ timer_thread_exit
    /\ timer_thread_done
    /\ Remove("timer")

(* kthread_stop returns when the thread has.                               *)
homa_pacer_free ==
    /\ Leaving
    /\ Head(loader.left) = "pacer"
    /\ \/ /\ pacer_kthread = "run"
          /\ pacer_kthread' = "stop"
          /\ UNCHANGED <<held, init, loader, userVars, timerVars>>
       \/ /\ pacer_kthread = "exited"
          /\ Remove("pacer")

UnregisterNets ==
    /\ Removed("net_ops")
    /\ net' = {}
    /\ UNCHANGED <<fails, users, timerVars, pacer_kthread>>

homa_destroy ==
    \/ homa_pacer_free
    \/ \E p \in HomaParts \ {"pacer"} : Remove(p)

TakeDown ==
    \/ StopTimer \/ TimerStopped \/ UnregisterNets \/ homa_destroy
    \/ \E p \in Parts \ (HomaParts \cup {"timer", "net_ops"}) : Remove(p)

(* The kernel unloads a loaded module that nothing refers to.              *)
homa_unload ==
    /\ loader.pc = "loaded"
    /\ users = {}
    /\ loader' = [pc |-> "unloading", left |-> UnloadOrder]
    /\ UNCHANGED <<held, init, userVars, timerVars, pacer_kthread>>

(***************************************************************************)
(* The threads.                                                            *)
(***************************************************************************)
TimerGoes(from, to) == timer_kthread = from /\ timer_kthread' = to

(* hrtimer_cancel.                                                         *)
Cancels(armed) == FALSE

ExitSeen == timer_thread_exit

(* The state is set to TASK_UNINTERRUPTIBLE before the flag is tested.     *)
homa_timer_main ==
    /\ \/ /\ timer_kthread = "start"
          /\ timer_kthread' = IF timer_thread_exit THEN "woken" ELSE "asleep"
          /\ hrtimer' = (hrtimer \/ ~timer_thread_exit)
          /\ UNCHANGED timer_thread_done
       \/ /\ timer_kthread = "woken"
          /\ timer_kthread' = IF ExitSeen THEN "leave" ELSE "timer"
          /\ UNCHANGED <<hrtimer, timer_thread_done>>
       \/ /\ TimerGoes("timer", "start")
          /\ UNCHANGED <<hrtimer, timer_thread_done>>
       \/ /\ TimerGoes("leave", "exited")
          /\ hrtimer' = Cancels(hrtimer)
          /\ timer_thread_done' = TRUE
    /\ UNCHANGED <<held, init, loader, userVars, timer_thread_exit,
                   pacer_kthread>>

(* The timer fires at least a millisecond after it was set: homa_load has  *)
(* stored what kthread_run returned by then.                               *)
homa_hrtimer ==
    /\ hrtimer
    /\ hrtimer' = FALSE
    /\ timer_kthread' = IF timer_kthread = "asleep" THEN "woken"
                        ELSE timer_kthread
    /\ UNCHANGED <<held, init, loader, userVars, timer_thread_exit,
                   timer_thread_done, pacer_kthread>>

homa_pacer_main ==
    /\ pacer_kthread = "stop"
    /\ pacer_kthread' = "exited"
    /\ UNCHANGED <<held, init, loader, userVars, timerVars>>

(***************************************************************************)
(* Namespaces and users, while the module is loaded.  An open socket keeps *)
(* its namespace.                                                          *)
(***************************************************************************)
homa_net_start(n) ==
    /\ loader.pc = "loaded"
    /\ n \notin net
    /\ net' = net \cup {n}
    /\ UNCHANGED <<held, init, loader, fails, users, timerVars,
                   pacer_kthread>>

homa_net_exit(n) ==
    /\ loader.pc = "loaded"
    /\ n \in net
    /\ n \notin users
    /\ net' = net \ {n}
    /\ UNCHANGED <<held, init, loader, fails, users, timerVars,
                   pacer_kthread>>

Use(n) ==
    /\ loader.pc = "loaded"
    /\ n \in net
    /\ users' = (users \cup {n}) \ (users \cap {n})
    /\ UNCHANGED <<held, init, loader, fails, net, timerVars, pacer_kthread>>

LoaderStep == homa_load \/ TakeDown \/ Finished

ThreadStep == homa_timer_main \/ homa_hrtimer \/ homa_pacer_main

Next ==
    \/ LoaderStep \/ homa_unload \/ ThreadStep
    \/ \E n \in Nets : homa_net_start(n) \/ homa_net_exit(n) \/ Use(n)

Spec == Init /\ [][Next]_loadVars

(***************************************************************************)
(* Properties.                                                             *)
(***************************************************************************)

(* A thread or a namespace is there only while what it uses is: the timer  *)
(* thread runs homa_timer only between homa_init and homa_destroy, the     *)
(* pacer's thread runs only while the queueing limits it reads exist, and  *)
(* a namespace's exit still finds the socket and peer tables.              *)
UsersFirst ==
    /\ timer_kthread = "timer" => TimerUses \subseteq held
    /\ pacer_kthread \in {"run", "stop"} => PacerUses \subseteq held
    /\ net # {} => NetUses \subseteq held

(* A module that was unloaded leaves nothing behind: no registration, no   *)
(* memory, no thread, no namespace and no armed timer that would run its   *)
(* code.                                                                   *)
UnloadedClean ==
    loader.pc = "unloaded" =>
        /\ held = {}
        /\ net = {}
        /\ timer_kthread = "exited"
        /\ pacer_kthread = "exited"
        /\ ~hrtimer

(* A load that failed after homa_init leaves behind at most the time trace *)
(* and what the step that failed left itself.                              *)
FailedClean ==
    loader.pc = "failed" /\ HomaParts \subseteq init =>
        held \subseteq {"tt", "offload"}

(* Threads and namespaces live inside what they use, and neither an unload *)
(* nor a load that fails after homa_init leaves anything that would run.   *)
LoadConsistent == UsersFirst /\ UnloadedClean /\ FailedClean
=============================================================================
