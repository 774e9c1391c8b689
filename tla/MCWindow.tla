------------------------------- MODULE MCWindow --------------------------------
(* The desktop, an application and the program that it started. *)
EXTENDS Window

CONSTANTS desktop, app, child

ParentOf == [p \in Procs |-> CASE p = desktop -> Nobody
                               [] p = app -> desktop
                               [] p = child -> app]

Sent == {[kind |-> "key"]} \cup
        {[kind |-> "pointer", at |-> e[1], down |-> e[2], wheel |-> e[3]] :
            e \in {<<1, FALSE, FALSE>>, <<2, FALSE, FALSE>>, <<1, TRUE, FALSE>>,
                   <<1, FALSE, TRUE>>}}

Work(of, procs, live, created, contents, sent) ==
    [of |-> of, procs |-> procs, windows |-> live, created |-> created,
     contents |-> contents, sent |-> sent]
Frames == Work("frames", {desktop, app}, 1, 2, 3, 0)
Events == Work("events", {desktop, app}, 2, 2, 0, 3)
Text == Work("text", {desktop, app, child}, 1, 1, 2, 2)
Devices == Work("devices", {desktop, app}, 0, 0, 0, 0)
All == {Frames, Events, Text, Devices}
=============================================================================
