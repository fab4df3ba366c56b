------------------------------ MODULE Privileges ------------------------------
(* The switch to the account of the "user" setting once the captures are open:      *)
(* src/src/privileges.rs and src/src/privileges/caps.rs, over the ids and the        *)
(* capabilities a kernel gives a process.                                          *)
(*                                                                                *)
(* Any call may fail, which ends the program; a sandbox may accept a call and        *)
(* ignore it, which the reads after it are there to catch.  An Option is the empty   *)
(* set for None and a singleton for Some.                                          *)
EXTENDS Naturals, FiniteSets, Functions

CONSTANTS
    Accounts,       \* the password database: an account for each user name
    GroupNames,     \* the group database: an id for each group name
    Processes       \* what the daemon may be started as

VARIABLES
    credentials,    \* what "user" resolved to: an Option
    process,        \* the ids and capabilities of the process
    drop            \* how far drop_to is

privilegeVars == <<credentials, process, drop>>

\* The real, the effective and the saved id.
IdTriples == [real : Nat, effective : Nat, saved : Nat]
Ids(id) == [real |-> id, effective |-> id, saved |-> id]

\* A process as it is started; was_root and started_with remember how.
ASSUME PrivilegesAssumption ==
    \A p \in Processes :
        /\ p \in [platform : {"linux", "freebsd", "macos"}, uid : IdTriples, gid : IdTriples,
                  groups : SUBSET Nat, permitted : SUBSET STRING, effective : SUBSET STRING,
                  inheritable : SUBSET STRING, keep_caps : BOOLEAN, no_new_privs : BOOLEAN,
                  ignores : SUBSET STRING, pin_needs_raw : BOOLEAN, was_root : BOOLEAN,
                  started_with : SUBSET STRING]
        /\ p.was_root <=> p.uid.effective = 0
        /\ p.started_with = p.permitted

CAP_SETUID == "setuid"
CAP_SETGID == "setgid"
CAP_NET_RAW == "net_raw"

(* -------------------------------- the kernel ------------------------------ *)

IsLinux(p) == p.platform = "linux"

\* May the process do what needs this capability?  On the BSDs root may.
Capable(p, capability) ==
    IF IsLinux(p) THEN capability \in p.effective ELSE p.uid.effective = 0

\* capset(2), of what is within the permitted set.
Capset(p, effective, permitted) ==
    IF "capset" \in p.ignores THEN p
    ELSE [p EXCEPT !.effective = effective, !.permitted = permitted, !.inheritable = {}]

\* setuid(2) by a process that may set any: all three ids change, and leaving root takes the
\* capabilities away, but for the permitted ones of a process that asked to keep them.
Setuid(p, uid) ==
    [p EXCEPT !.uid = Ids(uid), !.effective = {}, !.permitted = IF p.keep_caps THEN @ ELSE {}]

\* An id can be made 0 again.
Regains(ids, capable) == capable \/ 0 \in {ids.real, ids.saved}

\* SO_BINDTODEVICE, which pins a socket to its interface.
CanPin(p) == IsLinux(p) /\ p.pin_needs_raw => Capable(p, CAP_NET_RAW)

(* --------------------------------- resolve -------------------------------- *)

\* lookup: what the database holds for a name.
lookup(database, name) == {database[known] : known \in {name} \intersect DOMAIN database}
user_by_id(uid) == {account \in Range(Accounts) : account.uid = uid}

\* The user a setting names, with its primary group if the database was asked for it.
UserOf(run_as) ==
    IF run_as.user.is = "Id" THEN {[uid |-> run_as.user.id, primary |-> {}]}
    ELSE {[uid |-> a.uid, primary |-> {a.gid}] : a \in lookup(Accounts, run_as.user.name)}

GroupOf(run_as, user) ==
    IF run_as.group # {}
    THEN UNION {IF group.is = "Id" THEN {group.id} ELSE lookup(GroupNames, group.name) :
                   group \in run_as.group}
    ELSE IF user.primary # {} THEN user.primary
    ELSE {account.gid : account \in user_by_id(user.uid)}

\* Numbers skip the databases.
LooksUp(run_as) ==
    run_as.user.is = "Name" \/ run_as.group = {} \/ \E group \in run_as.group : group.is = "Name"

\* resolve: unknown accounts and root's are errors.
resolve(run_as) ==
    UNION {{[uid |-> user.uid, gid |-> gid] : gid \in GroupOf(run_as, user) \ {0}} :
              user \in {u \in UserOf(run_as) : u.uid # 0}}

(* --------------------------------- drop_to -------------------------------- *)

Fails == drop' = "failed" /\ UNCHANGED <<credentials, process>>
Goes(p, to) == process' = p /\ drop' = to /\ UNCHANGED credentials

\* Both the effective and the real ids are the account's.
RunsAs(p, account) ==
    /\ {p.uid.effective, p.uid.real} = {account.uid}
    /\ {p.gid.effective, p.gid.real} = {account.gid}

AfterSwitch(p) == IF IsLinux(p) THEN "settle" ELSE "forbid"

\* Where drop_to starts: as root, as the account already, or as someone else.
StartDrop(p) ==
    /\ drop = "none"
    /\ IF p.uid.effective = 0 THEN Goes(p, IF IsLinux(p) THEN "narrow" ELSE "switch")
       ELSE IF \E account \in credentials : RunsAs(p, account) THEN Goes(p, AfterSwitch(p))
       ELSE process' = p /\ drop' = "failed" /\ UNCHANGED credentials

\* Fault: the permitted set is not kept across the change of uid.
NarrowOnly(dial, ok) ==
    /\ drop = "narrow"
    /\ IF ~ok \/ ~({CAP_SETUID, CAP_SETGID} \subseteq process.permitted) THEN Fails
       ELSE LET wanted == {CAP_SETUID, CAP_SETGID} \union (IF dial THEN {CAP_NET_RAW} ELSE {})
                kept == wanted \intersect process.permitted
            IN  Goes(Capset(process, kept, kept), "switch")

\* narrow_for_switch: what the switch needs, and what DIAL may need after it.
narrow_for_switch(dial, ok) ==
    /\ drop = "narrow"
    /\ IF ~ok \/ ~({CAP_SETUID, CAP_SETGID} \subseteq process.permitted) THEN Fails
       ELSE LET wanted == {CAP_SETUID, CAP_SETGID} \union (IF dial THEN {CAP_NET_RAW} ELSE {})
                kept == wanted \intersect process.permitted
            IN  Goes([Capset(process, kept, kept) EXCEPT !.keep_caps = TRUE], "switch")

\* switch_to: groups, then gid, then uid.
switch_to(ok) ==
    /\ drop = "switch"
    /\ IF ~ok \/ ~Capable(process, CAP_SETGID) \/ ~Capable(process, CAP_SETUID) THEN Fails
       ELSE \E account \in credentials :
               Goes(Setuid([process EXCEPT !.groups = {account.gid}, !.gid = Ids(account.gid)],
                           account.uid), AfterSwitch(process))

\* probe: a socket that cannot be made, or a pin that fails for another reason, tells nothing.
probe(p) == IF CanPin(p) THEN {"Unprivileged", "Unknown"} ELSE {"NeedsNetRaw", "Unknown"}

\* decide, as the capabilities to keep.
decide(pin, held) == IF pin = "Unprivileged" THEN {} ELSE {CAP_NET_RAW} \intersect held

\* settle: nothing is in effect while the pin is tried, and what was chosen is read back.
settle(dial, ok) ==
    /\ drop = "settle"
    /\ LET held == process.permitted
           bare == Capset(process, {}, held)
       IN  \E pin \in probe(bare) :
              LET keep == IF dial THEN decide(pin, held) ELSE {}
                  settled == [Capset(bare, keep, keep) EXCEPT !.keep_caps = FALSE]
              IN  IF /\ ok
                     /\ settled.effective = keep /\ settled.permitted = keep
                     /\ settled.inheritable = {}
                  THEN Goes(settled, "forbid") ELSE Fails

\* forbid_new_privileges and new_privileges_forbidden; macOS has neither.
forbid_new_privileges(ok) ==
    /\ drop = "forbid"
    /\ IF process.platform = "macos" THEN Goes(process, "check")
       ELSE IF ~ok \/ "no_new_privs" \in process.ignores THEN Fails
       ELSE Goes([process EXCEPT !.no_new_privs = TRUE], "check")

root_regainable(p) ==
    Regains(p.gid, Capable(p, CAP_SETGID)) \/ Regains(p.uid, Capable(p, CAP_SETUID))

\* Fault: only what the ids are is looked at.
CheckIds ==
    /\ drop = "check"
    /\ IF \E account \in credentials : RunsAs(process, account) THEN Goes(process, "done") ELSE Fails

\* The last check of drop_to.
check ==
    /\ drop = "check"
    /\ IF root_regainable(process) \/ ~\E account \in credentials : RunsAs(process, account)
       THEN Fails ELSE Goes(process, "done")

PrivilegeInit == credentials = {} /\ process = [platform |-> "none"] /\ drop = "none"

drop_to(dial) ==
    \/ \E p \in Processes : StartDrop(p)
    \/ \E ok \in BOOLEAN :
          \/ narrow_for_switch(dial, ok) \/ switch_to(ok) \/ settle(dial, ok)
          \/ forbid_new_privileges(ok)
    \/ check

(* -------------------------------- properties ------------------------------ *)

\* What a switch that reports success leaves: the account's ids, no way back to root, no capability
\* but the one DIAL needs on this kernel, and DIAL able to pin its connections if it could before.
Switched(dial) ==
    /\ \E account \in credentials :
          /\ RunsAs(process, account)
          /\ process.was_root => process.groups = {account.gid}
    /\ ~root_regainable(process)
    /\ process.platform # "macos" => process.no_new_privs
    /\ IsLinux(process) =>
          /\ process.permitted \union process.effective \subseteq (IF dial THEN {CAP_NET_RAW} ELSE {})
          /\ process.inheritable = {} /\ ~process.keep_caps
          /\ (dial /\ CAP_NET_RAW \in process.started_with) => CanPin(process)

=============================================================================
