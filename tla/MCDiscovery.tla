------------------------------ MODULE MCDiscovery ------------------------------
(* Instances of DiscoveryRound: a few small hosts, each with something that is hard to
   correlate or to decide about. *)
EXTENDS DiscoveryRound

Unit(id, name, main) ==
  [id |-> id, name |-> name, main |-> main, active |-> "active", sub |-> "running",
   enabled |-> "enabled", fragment |-> None, cwd |-> None, exec |-> {}, env |-> {}, ev |-> {id}]

Process(pid, ppid, slices) ==
  [pid |-> pid, ppid |-> ppid, exe |-> None, cwd |-> None, command |-> "d", args |-> {}, slices |-> slices, box |-> None, ev |-> {pid}]

Socket(id, port, pids) ==
  [id |-> id, proto |-> "tcp", port |-> port, addr |-> "any", exposed |-> TRUE, pids |-> pids,
   boxes |-> {}, ev |-> {100 + id}]

Container(id, hex, pid) ==
  [id |-> id, hex |-> hex, state |-> "running", pid |-> pid, mounts |-> {}, ports |-> {},
   ev |-> {200 + id}]

Empty ==
  [units |-> {}, processes |-> {}, sockets |-> {}, containers |-> {}, projects |-> {},
   mounts |-> {}, artifacts |-> {}]

cron == <<"cron">>
mycron == <<"my", "cron">>
boxA == <<"a", "1">>
boxB == <<"b", "2">>

\* A unit in a place of its own, with a child and an open port, next to a helper of the
\* boot and a thread of the kernel.
Web ==
  [Empty EXCEPT
     !.units = {[Unit(1, cron, 10) EXCEPT !.fragment = <<"etc", "systemd", "system", "u">>,
                                      !.exec = {{<<"usr", "bin", "d">>}}]},
     !.processes = {[Process(10, 1, <<cron>>) EXCEPT !.exe = <<"usr", "bin", "d">>],
                    Process(11, 10, <<>>), Process(12, 1, <<>>),
                    [Process(13, 2, <<>>) EXCEPT !.command = "[kworker]"]},
     !.sockets = {Socket(1, 80, {10})}]

\* A container with a published port, its process below a shim, more evidence than a
\* model is told, and a process in a container that was not collected.
Docker ==
  [Empty EXCEPT
     !.containers = {[Container(1, boxA, 20) EXCEPT
                        !.ports = {[proto |-> "tcp", host |-> 8080, inside |-> 80,
                                    addr |-> "any"]}]},
     !.processes = {[Process(20, 21, <<>>) EXCEPT !.box = boxA], Process(21, 1, <<>>),
                    [Process(23, 21, <<>>) EXCEPT !.box = boxB]},
     !.sockets = {Socket(1, 8080, {22})}]

\* Two containers of a project whose files are in a common directory on a mount.
Compose ==
  [Empty EXCEPT
     !.containers = {[Container(1, boxA, 0) EXCEPT
                        !.mounts = {[source |-> <<"srv", ".", "db">>, target |-> <<"db">>]}],
                     [Container(2, boxB, 0) EXCEPT !.state = "exited"]},
     !.projects = {[id |-> 1, cwd |-> <<"srv", "app", "..">>, files |-> {<<"srv", "c.conf">>},
                    services |-> {[name |-> 1, boxes |-> {boxA}], [name |-> 2, boxes |-> {boxB}]},
                    ev |-> {301}]},
     !.mounts = {[id |-> 1, target |-> Root, ev |-> {401}],
                 [id |-> 2, target |-> <<"srv">>, ev |-> {402}]}]

\* The main process of one unit runs below that of another.
Nested ==
  [Empty EXCEPT
     !.units = {Unit(1, cron, 10), [Unit(2, mycron, 12) EXCEPT !.active = "failed"]},
     !.processes = {Process(10, 1, <<>>), Process(11, 10, <<>>), Process(12, 11, <<>>),
                    Process(13, 12, <<>>)}]

\* The name of one unit is the end of the name of another.
Suffix ==
  [Empty EXCEPT
     !.units = {[Unit(1, cron, 0) EXCEPT !.active = "inactive", !.sub = "dead"],
                [Unit(2, mycron, 10) EXCEPT !.fragment = <<"etc", "systemd", "system", "u">>]},
     !.processes = {Process(10, 1, <<mycron>>)}]

\* Two units for one process: their evidence contradicts.
Contested ==
  [Empty EXCEPT
     !.units = {Unit(1, cron, 10), [Unit(2, mycron, 0) EXCEPT !.active = "inactive",
                                                              !.sub = "dead"]},
     !.processes = {Process(10, 1, <<mycron>>), Process(14, 1, <<>>)}]

\* Processes without an owner that run the same program, in one case in an unknown
\* container, with a shared file of configuration and an artifact below both.
Alone ==
  LET app(pid) == [Process(pid, 1, <<>>) EXCEPT
                     !.exe = <<"opt", "app", "run">>, !.cwd = <<"opt", "app">>,
                     !.args = {<<"opt", "app", "c.conf">>, <<Relative, "x">>}]
  IN [Empty EXCEPT
        !.processes = {app(30), [app(31) EXCEPT !.box = boxB], Process(32, 1, <<>>),
                       Process(33, 1, <<>>)},
        !.sockets = {[Socket(1, 9000, {30}) EXCEPT !.exposed = FALSE, !.addr = "loopback"]},
        !.artifacts = {[id |-> 1, path |-> <<"opt", "app", "data">>, kind |-> "other",
                        type |-> "directory", ev |-> {501}]}]

\* Two candidates of which one is a unit that failed.
Two ==
  [Empty EXCEPT
     !.units = {[Unit(1, cron, 0) EXCEPT !.active = "failed", !.ev = {1, 2, 3}]},
     !.sockets = {Socket(1, 53, {})}]

MCHosts == {Empty, Web, Docker, Compose, Nested, Suffix, Contested, Alone, Two}
=============================================================================
