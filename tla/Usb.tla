--------------------------------- MODULE Usb ----------------------------------
(***************************************************************************)
(* kernel/usb.c beside one xHCI controller, hubs and devices that come and *)
(* go.  The driver is one thread of nested calls; between a command or a   *)
(* transfer and its answer it handles whatever the controller has posted.  *)
(*                                                                         *)
(* What is still to be done when the present call returns is `stack', its  *)
(* head first.  A device is known by its kind and by `id', which is new    *)
(* whenever something is plugged in.  All DMA pages of a device are one    *)
(* page; page 0 stands for the controller's own.                           *)
(***************************************************************************)
EXTENDS Integers, Sequences, FiniteSets

CONSTANTS D,        \* entries of devices[], and slots of the controller
          HubOf,    \* a sequence: the lower port that a hub is in if this port exists, or 0
          Starts,   \* bound: what may be plugged in at the start, and how much may happen then
          Kinds,    \* what may be plugged in later
          None
VARIABLES drv,   \* the driver's thread and its globals
          dev,   \* devices[]
          told,  \* what console and network were told of devices
          used,  \* DMA pages that have not been given back
          ctl,   \* the controller
          ring,  \* its event ring
          plug,  \* the ports
          left   \* how much may still happen to them
vars == <<drv, dev, told, used, ctl, ring, plug, left>>

Port    == DOMAIN HubOf
Entry   == 1 .. D
RingMax == 2                  \* bound: events waiting
Least(S) == CHOOSE x \in S : \A y \in S : x <= y
Live    == {i \in Entry : dev[i] # None}

(***************************************************************************)
(* Ports and devices (external)                                            *)
(***************************************************************************)
Present[p \in Port] ==
    /\ plug[p].kind # None
    /\ HubOf[p] # 0 => Present[HubOf[p]] /\ plug[HubOf[p]].kind = "hub"
Below[p \in Port] == {p} \cup UNION {IF HubOf[q] = p THEN Below[q] ELSE {} : q \in Port}
\* A change at p resets p and all behind it.
Disturbed(kind) ==
    \E p \in Port :
        /\ HubOf[p] # 0 => Present[HubOf[p]] /\ plug[HubOf[p]].kind = "hub"
        /\ kind # None \/ plug[p].kind # None
        /\ plug' = [q \in Port |->
               IF q \notin Below[p] THEN plug[q]
               ELSE [kind |-> IF q = p THEN kind ELSE plug[q].kind, id |-> plug[q].id + 1,
                     changed |-> TRUE, enabled |-> FALSE]]
Plugs == /\ left.plugs > 0
         /\ left' = [left EXCEPT !.plugs = @ - 1]
         /\ Disturbed(None) \/ \E kind \in Kinds : Disturbed(kind)
         /\ UNCHANGED <<drv, dev, told, used, ctl, ring>>

(***************************************************************************)
(* The controller (external)                                               *)
(***************************************************************************)
Quiet   == [type |-> "none", slot |-> 0, page |-> 0, at |-> 0]
Running == drv.host = "running"
\* The slot still reaches the device that was addressed through it.
Answers(s) == /\ Present[ctl.slot[s].at] /\ plug[ctl.slot[s].at].enabled
              /\ plug[ctl.slot[s].at].id = ctl.slot[s].id
Faults(field) == left[field] > 0 /\ left' = [left EXCEPT ![field] = @ - 1]
Post(event) == Len(ring) < RingMax /\ ring' = Append(ring, event)

SlotOf(page, p) == [page |-> page, at |-> p, id |-> plug[p].id, kind |-> plug[p].kind,
                    armed |-> FALSE, xfer |-> None]
\* A command is carried out, whenever the controller gets to it.
ExecuteEnable == \E s \in {s \in Entry : ctl.slot[s] = None /\ s \notin ctl.enabled} :
    /\ ctl.cmd.type = "enable"
    /\ ctl' = [ctl EXCEPT !.cmd = Quiet, !.enabled = @ \cup {s}]
    /\ Post([type |-> "command", ok |-> TRUE, slot |-> s])
    /\ UNCHANGED left
ExecuteAddress ==
    LET c == ctl.cmd  good == Present[c.at] /\ plug[c.at].enabled
    IN  /\ c.type = "address"
        /\ ctl' = [ctl EXCEPT !.cmd = Quiet, !.slot[c.slot] = IF good THEN SlotOf(c.page, c.at) ELSE @]
        /\ Post([type |-> "command", ok |-> good, slot |-> c.slot])
        /\ UNCHANGED left
ExecuteOther ==
    LET c == ctl.cmd
    IN  /\ c.type \in {"endpoints", "stop", "dequeue", "disable", "noop"}
        /\ ctl' = [ctl EXCEPT !.cmd = Quiet,
                      !.enabled = IF c.type = "disable" THEN @ \ {c.slot} ELSE @,
                      !.slot = [s \in Entry |-> CASE s # c.slot -> @[s]
                                                  [] c.type = "disable" -> None
                                                  [] c.type = "stop" -> [@[s] EXCEPT !.xfer = None]
                                                  [] OTHER -> @[s]]]
        /\ Post([type |-> "command", ok |-> TRUE, slot |-> c.slot])
        /\ UNCHANGED left
Refuse == /\ ctl.cmd.type # "none"
          /\ Post([type |-> "command", ok |-> FALSE, slot |-> ctl.cmd.slot])
          /\ ctl' = [ctl EXCEPT !.cmd = Quiet]
          /\ Faults("faults")

\* A transfer on endpoint 0 ends; a hub does what it was asked for.
Transfer(s, ok) ==
    LET x == ctl.slot[s].xfer
    IN  /\ Post([type |-> "transfer", ok |-> ok, slot |-> s, addr |-> x.addr, serial |-> x.serial,
                 connected |-> x.port # 0 /\ Present[x.port], changed |-> x.port # 0 /\ plug[x.port].changed,
                 enabled |-> x.port # 0 /\ plug[x.port].enabled])
        /\ ctl' = [ctl EXCEPT !.slot[s].xfer = None]
        /\ plug' = CASE ok /\ x.ask = "clear" -> [plug EXCEPT ![x.port].changed = FALSE]
                     [] ok /\ x.ask = "reset" -> [plug EXCEPT ![x.port].enabled = Present[x.port]]
                     [] OTHER -> plug
Transferred == \E s \in Entry :
    /\ ctl.slot[s] # None /\ ctl.slot[s].xfer # None
    /\ \/ Transfer(s, Answers(s)) /\ UNCHANGED left
       \/ Answers(s) /\ Transfer(s, FALSE) /\ Faults("faults")
\* An armed endpoint has something to report: whether the modifier or button is
\* held now; or it finds its device gone.
Reported == \E s \in Entry :
    /\ ctl.slot[s] # None /\ ctl.slot[s].armed
    /\ ctl' = [ctl EXCEPT !.slot[s].armed = FALSE]
    /\ \/ /\ Answers(s)
          /\ \E held \in BOOLEAN :
                 Post([type |-> "report", ok |-> TRUE, slot |-> s, page |-> ctl.slot[s].page, held |-> held])
          /\ Faults("reports")
       \/ /\ ~Answers(s)
          /\ Post([type |-> "report", ok |-> FALSE, slot |-> s, page |-> ctl.slot[s].page, held |-> FALSE])
          /\ UNCHANGED left
Broken == Post([type |-> "broken"]) /\ Faults("faults") /\ UNCHANGED ctl

Controller ==
    /\ ctl.on /\ Running
    /\ \/ ExecuteEnable /\ UNCHANGED plug
       \/ ExecuteAddress /\ UNCHANGED plug
       \/ ExecuteOther /\ UNCHANGED plug
       \/ Refuse /\ UNCHANGED plug
       \/ Transferred
       \/ Reported /\ UNCHANGED plug
       \/ Broken /\ UNCHANGED plug
    /\ UNCHANGED <<drv, dev, told, used>>

(***************************************************************************)
(* The driver: calls, commands and control transfers                       *)
(***************************************************************************)
Init ==
    /\ drv = [host |-> "off", at |-> "go", stack |-> <<>>, res |-> [ok |-> TRUE], addr |-> 0,
              serial |-> 0, ecm |-> 0, mouse |-> 0, attempted |-> {}]
    /\ dev = [i \in Entry |-> None]
    /\ told = [held |-> 0, button |-> FALSE, adapter |-> FALSE, late |-> FALSE]
    /\ used = {}
    /\ ctl = [on |-> FALSE, cmd |-> Quiet, enabled |-> {}, slot |-> [s \in Entry |-> None]]
    /\ ring = <<>>
    /\ \E start \in Starts :
           /\ plug = [p \in Port |-> [kind |-> start.kinds[p], id |-> 0, changed |-> TRUE, enabled |-> FALSE]]
           /\ left = start.left

Call(op, i, p, st) == [op |-> op, i |-> i, p |-> p, st |-> st]
Frame(op, i, p)    == Call(op, i, p, None)
Top    == Head(drv.stack)
At(op) == Running /\ drv.at = "go" /\ drv.stack # <<>> /\ Top.op = op
\* The call at the head of the stack returns, or goes on with `frames'.
Then(frames)  == [drv EXCEPT !.stack = frames \o Tail(@)]
Calls(frames) == drv' = Then(frames) /\ UNCHANGED ctl

\* command, up to its wait
Orders(order, frames) ==
    /\ drv' = [Then(frames) EXCEPT !.at = "command"]
    /\ ctl' = [ctl EXCEPT !.cmd = order]
Command(type, slot, frames) == Orders([Quiet EXCEPT !.type = type, !.slot = slot], frames)
\* control, up to its wait, or up to its return if the device is dead
Tries(attempted, i, ask, p, frames) ==
    IF dev[i].dead
    THEN /\ drv' = [Then(frames) EXCEPT !.res = [ok |-> FALSE], !.attempted = attempted]
         /\ UNCHANGED ctl
    ELSE /\ drv' = [Then(<<Frame("answer", i, 0)>> \o frames)
                       EXCEPT !.at = "control", !.addr = 1 - @, !.serial = 1 - @, !.attempted = attempted]
         /\ ctl' = [ctl EXCEPT !.slot[dev[i].slot].xfer =
                        [ask |-> ask, port |-> p, addr |-> drv'.addr, serial |-> drv'.serial]]
Control(i, ask, p, frames) == Tries(drv.attempted, i, ask, p, frames)

\* Console and network are told that some devices will report no more.
\* Mutated: modifiers that are still held are forgotten.
ToldButKeys(gone) == [told EXCEPT !.button = @ /\ drv.mouse \notin gone, !.adapter = @ /\ drv.ecm \notin gone]
ToldGone(gone) ==
    [told EXCEPT !.held = @ - Cardinality({i \in gone : dev[i].held}),
                 !.button = @ /\ drv.mouse \notin gone, !.adapter = @ /\ drv.ecm \notin gone]
\* host_failed: nothing of a failed host is done or freed any more.
HostFails ==
    /\ drv' = [drv EXCEPT !.host = "failed", !.at = "go", !.stack = <<>>, !.ecm = 0, !.mouse = 0]
    /\ dev' = [i \in Entry |-> IF i \in Live THEN [dev[i] EXCEPT !.dead = TRUE, !.held = FALSE] ELSE None]
    /\ told' = ToldGone(Live)
    /\ UNCHANGED <<used, ctl>>

(***************************************************************************)
(* events                                                                  *)
(***************************************************************************)
Event == Head(ring)
\* The answer that is waited for
Accepts(e) == \/ drv.at = "command" /\ e.type = "command"
              \/ /\ drv.at = "control" /\ e.type = "transfer" /\ e.slot = dev[Top.i].slot
                 /\ e.addr = drv.addr \/ ~e.ok
\* The device whose report it is; a keyboard may be one that is being removed.
Reporter(e) == {i \in Live : /\ dev[i].slot = e.slot /\ dev[i].armed /\ dev[i].page = e.page
                             /\ \/ dev[i].kind = "keyboard"
                                \/ ~dev[i].dead /\ i \in {drv.mouse, drv.ecm}}
Leaving(i) == \E n \in DOMAIN drv.stack : drv.stack[n].op \in {"retire", "retired"} /\ drv.stack[n].i = i
Rearmed(i) == ctl' = IF dev'[i].armed THEN [ctl EXCEPT !.slot[dev[i].slot].armed = TRUE] ELSE ctl
KeyReport(i, e) ==
    /\ told' = [told EXCEPT !.held = @ + (IF e.held THEN 1 ELSE 0) - (IF dev[i].held THEN 1 ELSE 0),
                            !.late = @ \/ (e.held /\ Leaving(i))]
    /\ dev' = [dev EXCEPT ![i].held = e.held, ![i].armed = ~dev[i].dead]
    /\ Rearmed(i)
OtherReport(i, e) ==
    /\ told' = [told EXCEPT !.button = IF i = drv.mouse THEN e.held ELSE @]
    /\ UNCHANGED dev
    /\ Rearmed(i)
BadReport(i) ==
    /\ dev' = [dev EXCEPT ![i].dead = TRUE, ![i].armed = FALSE]
    /\ told' = [told EXCEPT !.button = @ /\ i # drv.mouse]
    /\ UNCHANGED ctl
Report(e) == \E i \in Reporter(e) :
    \/ ~e.ok /\ BadReport(i)
    \/ e.ok /\ dev[i].kind = "keyboard" /\ KeyReport(i, e)
    \/ e.ok /\ dev[i].kind # "keyboard" /\ OtherReport(i, e)
Handles ==
    /\ Running /\ ring # <<>> /\ ring' = Tail(ring)
    /\ drv.at # "go" \/ drv.stack = <<>>
    /\ IF Event.type = "broken" THEN HostFails
       ELSE /\ drv' = IF Accepts(Event) THEN [drv EXCEPT !.at = "go", !.res = Event] ELSE drv
            /\ IF Event.type = "report" /\ Reporter(Event) # {} THEN Report(Event)
               ELSE UNCHANGED <<dev, told, ctl>>
            /\ UNCHANGED used
    /\ UNCHANGED <<plug, left>>

\* No answer came in time.
CommandTimesOut == Running /\ drv.at = "command" /\ Faults("faults") /\ HostFails /\ UNCHANGED <<ring, plug>>
ControlTimesOut ==
    /\ Running /\ drv.at = "control" /\ Faults("faults")
    /\ drv' = [drv EXCEPT !.at = "go", !.res = [ok |-> FALSE]]
    /\ UNCHANGED <<dev, told, used, ctl, ring, plug>>

(***************************************************************************)
(* The host                                                                *)
(***************************************************************************)
\* init_host: whatever goes wrong before the controller is told of its pages
\* gives them back.
HostStarts ==
    /\ drv.host = "off"
    /\ \/ /\ Faults("faults") /\ drv' = [drv EXCEPT !.host = "failed"]
          /\ UNCHANGED <<used, ctl>>
       \/ /\ used' = {0}
          /\ drv' = [drv EXCEPT !.host = "running", !.at = "command", !.stack = <<Frame("noop", 0, 0)>>]
          /\ ctl' = [ctl EXCEPT !.on = TRUE, !.cmd = [Quiet EXCEPT !.type = "noop"]]
          /\ UNCHANGED left
    /\ UNCHANGED <<dev, told, ring, plug>>

RootPorts == {p \in Port : HubOf[p] = 0}
Numbered(S, Of(_)) == [n \in 1 .. Cardinality(S) |->
    Of(CHOOSE x \in S : Cardinality({y \in S : y < x}) = n - 1)]
ScanCalls == LET Root(p) == Frame("root", 0, p)
             IN  Numbered(RootPorts, Root) \o <<Frame("hubs", 0, 0), Frame("promote", 0, 0)>>
HostAnswers ==
    /\ At("noop")
    /\ IF drv.res.ok THEN Calls(ScanCalls) /\ UNCHANGED <<dev, told, used>> ELSE HostFails
    /\ UNCHANGED <<ring, plug, left>>
\* usb_poll, usb_rescan
Scan == /\ Running /\ drv.at = "go" /\ drv.stack = <<>>
        /\ \E attempted \in {drv.attempted, {}} :
               drv' = [drv EXCEPT !.stack = ScanCalls, !.attempted = attempted]
        /\ UNCHANGED <<dev, told, used, ctl, ring, plug, left>>

(***************************************************************************)
(* Removing and attaching                                                  *)
(***************************************************************************)
AtPort(parent, p) == {i \in Live : dev[i].parent = parent /\ dev[i].at = p}
Childs(i) == {c \in Live : dev[c].parent = i}
HubPorts(i) == {q \in Port : HubOf[q] = dev[i].at}
Removal(i) == Frame("remove", i, 0)

\* remove_device, up to its children
Remove ==
    LET i == Top.i
    IN  /\ At("remove")
        /\ dev' = [dev EXCEPT ![i].dead = TRUE, ![i].held = FALSE]
        /\ told' = ToldGone({i})
        /\ drv' = [Then(Numbered(Childs(i), Removal) \o <<Frame("retire", i, 0)>>)
                      EXCEPT !.ecm = IF i = @ THEN 0 ELSE @, !.mouse = IF i = @ THEN 0 ELSE @]
        /\ UNCHANGED <<used, ctl, ring, plug, left>>
Retire == /\ At("retire")
          /\ Command("disable", dev[Top.i].slot, <<Frame("retired", Top.i, 0)>>)
          /\ UNCHANGED <<dev, told, used, ring, plug, left>>
\* Pages are given back only now.  Mutated: even if the controller refuses.
RetiredAnyway ==
    LET i == Top.i
    IN  /\ At("retired")
        /\ dev' = [dev EXCEPT ![i] = None]
        /\ used' = used \ ({dev[i].page} \ {0})
        /\ drv' = [Then(<<>>) EXCEPT !.attempted = @ \ HubPorts(i)]
        /\ UNCHANGED <<told, ctl, ring, plug, left>>
Retired ==
    LET i == Top.i
    IN  /\ At("retired")
        /\ IF ~drv.res.ok THEN HostFails
           ELSE /\ dev' = [dev EXCEPT ![i] = None]
                /\ used' = used \ ({dev[i].page} \ {0})
                /\ drv' = [Then(<<>>) EXCEPT !.attempted = @ \ HubPorts(i)]
                /\ UNCHANGED <<told, ctl>>
        /\ UNCHANGED <<ring, plug, left>>

Attach == /\ At("attach")
          /\ IF Live = Entry THEN Calls(<<>>)
             ELSE Command("enable", 0, <<Frame("enabled", Top.i, Top.p)>>)
          /\ UNCHANGED <<dev, told, used, ring, plug, left>>
NewDevice(slot, parent, p, page) ==
    [slot |-> slot, parent |-> parent, at |-> p, page |-> page, kind |-> None, state |-> "default",
     dead |-> FALSE, held |-> FALSE, armed |-> FALSE]
Enabled ==
    LET i == Least(Entry \ Live)  page == Least(Entry \ used)  slot == drv.res.slot
    IN  /\ At("enabled")
        /\ \/ /\ ~drv.res.ok /\ Calls(<<>>)
              /\ UNCHANGED <<dev, used, left>>
           \/ /\ drv.res.ok /\ UNCHANGED left
              /\ dev' = [dev EXCEPT ![i] = NewDevice(slot, Top.i, Top.p, page)]
              /\ used' = used \cup {page}
              /\ Orders([type |-> "address", slot |-> slot, page |-> page, at |-> Top.p],
                        <<Frame("addressed", i, 0)>>)
           \/ /\ drv.res.ok /\ Faults("faults")  \* no page left
              /\ dev' = [dev EXCEPT ![i] = NewDevice(slot, Top.i, Top.p, 0)]
              /\ Calls(<<Removal(i)>>) /\ UNCHANGED used
        /\ UNCHANGED <<told, ring, plug>>
\* identify asks the device what it is, and configures it.
Addressed ==
    /\ At("addressed")
    /\ IF drv.res.ok THEN Control(Top.i, "plain", 0, <<Frame("identified", Top.i, 0)>>)
       ELSE Calls(<<Removal(Top.i)>>)
    /\ UNCHANGED <<dev, told, used, ring, plug, left>>
Identified ==
    LET i == Top.i
    IN  /\ At("identified")
        /\ IF drv.res.ok
           THEN /\ dev' = [dev EXCEPT ![i].kind = ctl.slot[dev[i].slot].kind, ![i].state = "identified"]
                /\ Control(i, "plain", 0, <<Frame("configured", i, 0)>>)
           ELSE Calls(<<Removal(i)>>) /\ UNCHANGED dev
        /\ UNCHANGED <<told, used, ring, plug, left>>
Spare(i) == \/ dev[i].kind = "mouse" /\ drv.mouse # 0
            \/ dev[i].kind = "adapter" /\ drv.ecm # 0
Configured ==
    LET i == Top.i
    IN  /\ At("configured")
        /\ IF drv.res.ok
           THEN /\ dev' = [dev EXCEPT ![i].state = "configured"]
                /\ IF Spare(i) THEN Calls(<<>>)
                   ELSE Command("endpoints", dev[i].slot, <<Frame("endpoints", i, 0)>>)
           ELSE Calls(<<Removal(i)>>) /\ UNCHANGED dev
        /\ UNCHANGED <<told, used, ring, plug, left>>
\* A device that does not start is removed, or, if it was a spare one, marked.
Unstarted(i) ==
    IF Top.p = 0 THEN Calls(<<Removal(i)>>) /\ UNCHANGED dev
    ELSE Calls(<<>>) /\ dev' = [dev EXCEPT ![i].dead = TRUE]
Endpoints ==
    LET i == Top.i
    IN  /\ At("endpoints")
        /\ IF drv.res.ok THEN Control(i, "plain", 0, <<Frame("started", i, Top.p)>>) /\ UNCHANGED dev
           ELSE Unstarted(i)
        /\ UNCHANGED <<told, used, ring, plug, left>>
Started ==
    LET i == Top.i
    IN  /\ At("started")
        /\ IF drv.res.ok /\ ~dev[i].dead
           THEN /\ dev' = [dev EXCEPT ![i].state = dev[i].kind, ![i].armed = dev[i].kind # "hub"]
                /\ drv' = [Then(<<>>) EXCEPT !.mouse = IF dev[i].kind = "mouse" THEN i ELSE @,
                                             !.ecm = IF dev[i].kind = "adapter" THEN i ELSE @]
                /\ told' = [told EXCEPT !.adapter = @ \/ dev[i].kind = "adapter"]
                /\ Rearmed(i)
           ELSE Unstarted(i) /\ UNCHANGED told
        /\ UNCHANGED <<used, ring, plug, left>>

\* control after its wait: control_recover, if the transfer was not completed
Answered ==
    /\ At("answer")
    /\ IF drv.res.ok THEN Calls(<<>>) ELSE Command("stop", dev[Top.i].slot, <<Frame("stopped", Top.i, 0)>>)
    /\ UNCHANGED <<dev, told, used, ring, plug, left>>
Stopped ==
    LET i == Top.i
    IN  /\ At("stopped")
        /\ IF drv.res.ok
           THEN /\ ctl' = [ctl EXCEPT !.cmd = [Quiet EXCEPT !.type = "dequeue", !.slot = dev[i].slot]]
                /\ drv' = [Then(<<Frame("recovered", i, 0)>>) EXCEPT !.at = "command", !.addr = 1]
                /\ UNCHANGED dev
           ELSE Calls(<<>>) /\ dev' = [dev EXCEPT ![i].dead = TRUE]
        /\ UNCHANGED <<told, used, ring, plug, left>>
Recovered ==
    /\ At("recovered")
    /\ dev' = [dev EXCEPT ![Top.i].dead = @ \/ ~drv.res.ok]
    /\ drv' = [Then(<<>>) EXCEPT !.res = [ok |-> FALSE]]
    /\ UNCHANGED <<told, used, ctl, ring, plug, left>>

(***************************************************************************)
(* Scanning                                                                *)
(***************************************************************************)
Status(p) == [connected |-> Present[p], changed |-> plug[p].changed, enabled |-> plug[p].enabled]
\* What was at a port and is not any more.  Mutated: a swap is not looked for.
AwayForGood(d, st) == {i \in d : ~st.connected \/ dev[i].dead}
Away(d, st) == {i \in d : ~st.connected \/ st.changed \/ dev[i].dead}
Tried(p, st) == IF ~st.connected \/ st.changed THEN drv.attempted \ {p} ELSE drv.attempted
\* A root port's changes are cleared as soon as it has been read.
Proceed(p, st) ==
    /\ plug' = [plug EXCEPT ![p].changed = FALSE]
    /\ IF st.connected /\ AtPort(0, p) = {} /\ p \notin Tried(p, st)
       THEN drv' = [Then(<<Frame("reset", 0, p)>>) EXCEPT !.attempted = Tried(p, st) \cup {p}]
       ELSE drv' = [Then(<<>>) EXCEPT !.attempted = Tried(p, st)]
    /\ UNCHANGED ctl
ScanRoot ==
    LET p == Top.p  away == Away(AtPort(0, p), Status(p))
    IN  /\ At("root")
        /\ IF away = {} THEN Proceed(p, Status(p))
           ELSE Calls(Numbered(away, Removal) \o <<Call("removed", 0, p, Status(p))>>) /\ UNCHANGED plug
        /\ UNCHANGED <<dev, told, used, ring, left>>
ScanRemoved == At("removed") /\ Proceed(Top.p, Top.st) /\ UNCHANGED <<dev, told, used, ring, left>>
\* reset_root_port
ResetRoot ==
    LET p == Top.p
    IN  /\ At("reset")
        /\ \/ /\ Present[p] /\ Calls(<<Frame("settled", 0, p)>>)
              /\ plug' = [plug EXCEPT ![p].enabled = TRUE] /\ UNCHANGED left
           \/ Present[p] /\ Calls(<<>>) /\ Faults("faults") /\ UNCHANGED plug
           \/ ~Present[p] /\ Calls(<<>>) /\ UNCHANGED <<plug, left>>
        /\ UNCHANGED <<dev, told, used, ring>>
SettleRoot ==
    LET p == Top.p
    IN  /\ At("settled")
        /\ plug' = [plug EXCEPT ![p].changed = FALSE]
        /\ Calls(IF Present[p] /\ plug[p].enabled THEN <<Frame("attach", 0, p)>> ELSE <<>>)
        /\ UNCHANGED <<dev, told, used, ring, left>>

Hubs(parent) == LET Walk(i) == Frame("hub", i, 0)
                IN  Numbered({i \in Live : dev[i].parent = parent /\ dev[i].state = "hub"}, Walk)
ScanHubs == At("hubs") /\ Calls(Hubs(0)) /\ UNCHANGED <<dev, told, used, ring, plug, left>>
\* scan_hub, from the port after p; then the hubs below
ScanHub ==
    LET i == Top.i  rest == {q \in HubPorts(i) : q > Top.p}
    IN  /\ At("hub")
        /\ IF Top.p = 0 /\ dev[i].dead THEN Calls(<<>>)
           ELSE IF rest = {} THEN Calls(Hubs(i))
           ELSE Control(i, "status", Least(rest), <<Frame("status", i, Least(rest))>>)
        /\ UNCHANGED <<dev, told, used, ring, plug, left>>
HubStatus ==
    LET i == Top.i  p == Top.p  st == drv.res
    IN  /\ At("status")
        /\ Calls(IF ~st.ok THEN <<>>
                 ELSE Numbered(Away(AtPort(i, p), st), Removal) \o <<Call("clear", i, p, st)>>)
        /\ UNCHANGED <<dev, told, used, ring, plug, left>>
\* hub_clear_changes: what the hub reported, and no more
Cleared(next) == IF Top.st.changed THEN Control(Top.i, "clear", Top.p, <<Call(next, Top.i, Top.p, Top.st)>>)
                 ELSE Calls(<<Call(next, Top.i, Top.p, Top.st)>>)
HubClear == At("clear") /\ Cleared("consider") /\ UNCHANGED <<dev, told, used, ring, plug, left>>
HubConsider ==
    LET i == Top.i  p == Top.p  st == Top.st
    IN  /\ At("consider")
        /\ IF st.connected /\ AtPort(i, p) = {} /\ p \notin Tried(p, st)
           THEN Tries(Tried(p, st) \cup {p}, i, "reset", p, <<Call("resetting", i, p, st)>>)
           ELSE drv' = [Then(<<Frame("hub", i, p)>>) EXCEPT !.attempted = Tried(p, st)] /\ UNCHANGED ctl
        /\ UNCHANGED <<dev, told, used, ring, plug, left>>
HubResetting ==
    LET i == Top.i  p == Top.p
    IN  /\ At("resetting")
        /\ IF drv.res.ok THEN Control(i, "status", p, <<Call("settling", i, p, Top.st)>>)
           ELSE Calls(<<Frame("hub", i, p)>>)
        /\ UNCHANGED <<dev, told, used, ring, plug, left>>
HubSettling ==
    /\ At("settling")
    /\ Calls(<<Call("settle", Top.i, Top.p, IF drv.res.ok THEN drv.res ELSE Top.st)>>)
    /\ UNCHANGED <<dev, told, used, ring, plug, left>>
HubSettle == At("settle") /\ Cleared("join") /\ UNCHANGED <<dev, told, used, ring, plug, left>>
HubJoin ==
    /\ At("join")
    /\ Calls((IF Top.st.connected /\ Top.st.enabled THEN <<Frame("attach", Top.i, Top.p)>> ELSE <<>>)
             \o <<Frame("hub", Top.i, Top.p)>>)
    /\ UNCHANGED <<dev, told, used, ring, plug, left>>

\* A second mouse takes over when the first has gone.
Backups == {i \in Live : ~dev[i].dead /\ dev[i].kind = "mouse" /\ dev[i].state = "configured"}
Promote ==
    LET i == Least(Backups)
    IN  /\ At("promote")
        /\ IF drv.mouse # 0 \/ Backups = {} THEN Calls(<<>>)
           ELSE Command("endpoints", dev[i].slot, <<Frame("endpoints", i, 1), Frame("promote", 0, 0)>>)
        /\ UNCHANGED <<dev, told, used, ring, plug, left>>

Driver ==
    \/ HostStarts \/ HostAnswers \/ Scan \/ Handles \/ CommandTimesOut \/ ControlTimesOut
    \/ Remove \/ Retire \/ Retired \/ Attach \/ Enabled \/ Addressed \/ Identified \/ Configured
    \/ Endpoints \/ Started \/ Answered \/ Stopped \/ Recovered
    \/ ScanRoot \/ ScanRemoved \/ ResetRoot \/ SettleRoot \/ ScanHubs \/ ScanHub \/ HubStatus
    \/ HubClear \/ HubConsider \/ HubResetting \/ HubSettling \/ HubSettle \/ HubJoin \/ Promote
Next == Driver \/ Controller \/ Plugs
Spec == Init /\ [][Next]_vars

(***************************************************************************)
(* Properties                                                              *)
(***************************************************************************)
\* Pages that the controller can reach stay out of use, and no two devices share
\* one, whatever came, went or timed out (host_failed, remove_device).
Reached == {0} \cup {ctl.slot[s].page : s \in {s \in Entry : ctl.slot[s] # None}}
           \cup {ctl.cmd.page}
NoStrayDma ==
    ctl.on => /\ Reached \subseteq used
              /\ \A s, t \in {s \in Entry : ctl.slot[s] # None} :
                     ctl.slot[s].page = ctl.slot[t].page => s = t

\* A transfer that is taken for done is the one that was asked for last, not one
\* that was given up before (control, control_recover).
AnswersTrue ==
    drv.stack # <<>> /\ Top.op = "answer" /\ drv.at = "go" /\ drv.res.ok => drv.res.serial = drv.serial

\* An entry that has nothing against it is the device that is at its port: no
\* swap goes unseen, at a root port or behind hubs (scan, scan_hub, attach).
Seen[p \in Port] == plug[p].changed \/ (HubOf[p] # 0 /\ Seen[HubOf[p]])
TableTrue ==
    Running => \A i \in Live :
        /\ dev[i].kind # None /\ ~dev[i].dead /\ ~Seen[dev[i].at]
              => ctl.slot[dev[i].slot].id = plug[dev[i].at].id
        /\ \A j \in Live : i # j => dev[i].slot # dev[j].slot /\ dev[i].at # dev[j].at
        /\ dev[i].parent # 0 => dev[i].parent \in Live

\* Console and network hold nothing of a device that has gone: modifiers, a
\* button and the adapter are those of devices in the table, except for a report
\* that comes while its keyboard is being removed (remove_device, host_failed).
InputReleased ==
    /\ ~told.late => told.held = Cardinality({i \in Live : dev[i].held /\ drv.host = "running"})
    /\ drv.mouse # 0 => drv.mouse \in Live /\ dev[drv.mouse].kind = "mouse"
    /\ drv.ecm # 0 => drv.ecm \in Live /\ dev[drv.ecm].kind = "adapter"
    /\ told.button => drv.mouse # 0 /\ ~dev[drv.mouse].dead
    /\ told.adapter <=> drv.ecm # 0
=============================================================================
