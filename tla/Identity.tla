------------------------------ MODULE Identity ------------------------------
(***************************************************************************)
(* The device identity of the native core: load_or_provision_warp and      *)
(* load_or_provision_masque (main.rs), the calls to the registration       *)
(* service with their retries and their camouflaged second route           *)
(* (account.rs), the file they keep it in (config.rs), and the renewal     *)
(* run_masque asks for when a gateway refuses the certificate.  The        *)
(* service applies a request and answers it in two steps that can be       *)
(* parted by the network; the process can die anywhere.                    *)
(***************************************************************************)
EXTENDS Naturals, FiniteSets

CONSTANTS
    Devices,    \* device registrations the service can hold
    Keys,       \* MASQUE keys that can exist at once
    Absent,     \* no device, no key, no file
    Damaged,    \* a file that does not parse
    Attempts    \* API_ATTEMPTS

Ages == {"fresh", "expiring", "expired"}
Identities == [dev : Devices, cert : Keys \cup {Absent}, age : Ages]

ASSUME IdentityAssumption ==
    /\ Absent \notin Devices \cup Keys \cup Identities
    /\ Damaged \notin {Absent} \cup Identities
    /\ Attempts \in Nat \ {0}

VARIABLES
    opt,        \* how the process is configured: protocol, team, AETHER_REPROVISION
    server,     \* registrations that are live, and the key enrolled for each
    disk,       \* the identity file
    mem,        \* the identity in the process
    pc,         \* where load_or_provision_* is
    call,       \* the request in progress
    calm,       \* the faults of the network, the disk and the process have ended
    saved,      \* history: registrations the file has held, undamaged since
    refusals    \* history: the refusals received since the last start

identityVars == <<opt, server, disk, mem, pc, call, calm, saved, refusals>>

NoCall == [op |-> "none", route |-> "direct", tries |-> 0, refused |-> FALSE, key |-> Absent]

IdentityTypeOK ==
    /\ opt \in [masque : BOOLEAN, team : BOOLEAN, reprovision : BOOLEAN]
    /\ server \in [live : SUBSET Devices, key : [Devices -> Keys \cup {Absent}]]
    /\ disk \in Identities \cup {Absent, Damaged}
    /\ mem \in Identities \cup {Absent}
    /\ pc \in {"off", "fetchSaved", "enrolSaved", "register", "enrolNew", "fetchNew",
               "save", "ready", "renew", "resave"}
    /\ call \in [op : {"none", "register", "enrol", "fetch"}, route : {"direct", "front"},
                 tries : 0 .. Attempts - 1, refused : BOOLEAN, key : Keys \cup {Absent}]
    /\ saved \in SUBSET Devices
    /\ calm \in BOOLEAN
    /\ refusals \in SUBSET (Devices \X {"enrol", "fetch"})

IdentityInit ==
    /\ opt \in [masque : BOOLEAN, team : BOOLEAN, reprovision : BOOLEAN]
    /\ server = [live |-> {}, key |-> [d \in Devices |-> Absent]]
    /\ disk = Absent
    /\ mem = Absent
    /\ pc = "off"
    /\ call = NoCall
    /\ saved = {}
    /\ calm = FALSE
    /\ refusals = {}

-----------------------------------------------------------------------------
(* One identity.                                                           *)

\* has_masque_credentials: a certificate that is not close to its expiry.
HasCredentials(id) == id.cert # Absent /\ id.age = "fresh"

\* cert_still_usable: a certificate that has not expired.
CertUsable(id) == id.cert # Absent /\ id.age # "expired"

DeviceOf(id) == IF id \in {Absent, Damaged} THEN {} ELSE {id.dev}
CertOf(id) == IF id \in {Absent, Damaged} THEN {} ELSE {id.cert}

\* The registration and the certificate the process holds work at the edge.
Usable == /\ mem.dev \in server.live
          /\ opt.masque => mem.cert = server.key[mem.dev]

FreshKeys == Keys \ (CertOf(disk) \cup CertOf(mem)
                       \cup {server.key[d] : d \in DeviceOf(disk) \cup DeviceOf(mem)})
FreeDevices == Devices \ (server.live \cup DeviceOf(disk) \cup DeviceOf(mem))

-----------------------------------------------------------------------------
(* Calls to the registration service.                                      *)

Call(op, next) ==
    /\ pc' = next
    /\ IF op = "enrol"
       THEN \E k \in FreshKeys : call' = [NoCall EXCEPT !.op = op, !.key = k]
       ELSE call' = [NoCall EXCEPT !.op = op]

\* Mutant: a 403 is read as "this device is gone".
RefusesToo == {"refused", "forbidden"}

\* refuses_identity: 401, 404 and 410, deliberately not 403.
Refuses == {"refused"}

\* A transport error, or worth_retrying: 408, 429, 5xx.
Retryable == {"lost", "busy"}

\* The range 0..API_ATTEMPTS of send_with_retry is not used up.
MayRetry == call.tries + 1 < Attempts

\* The answers that can reach the client, given that the request was applied.
\* A request that was applied can be answered, or its answer lost or cut off.
Answers(applied, alive) ==
    IF applied THEN {"ok", "lost", "cut"}
    ELSE {"lost", "busy", "forbidden"} \cup (IF alive THEN {} ELSE {"refused"})

\* What the service does with the request, before any answer.
Apply(d) ==
    \/ /\ call.op = "register"
       /\ server' = [live |-> server.live \cup {d}, key |-> [server.key EXCEPT ![d] = Absent]]
    \/ call.op = "enrol" /\ server' = [server EXCEPT !.key[d] = call.key]
    \/ call.op = "fetch" /\ UNCHANGED server

\* What load_or_provision_* and refresh_refused_masque_identity do with the outcome
\* of a call ("ok", "refused" or "error") about device d.
Enrolled == [mem EXCEPT !.cert = call.key, !.age = "fresh"]
Replace == IF opt.reprovision THEN Call("register", "register")
           ELSE pc' = "ready" /\ call' = NoCall
Fail == pc' = "off" /\ call' = NoCall /\ mem' = Absent
Save == pc' = "save" /\ call' = NoCall

Outcome(res, d) ==
    \/ /\ pc = "fetchSaved"
       /\ IF res = "refused" THEN Replace ELSE Save
       /\ UNCHANGED mem
    \/ /\ pc = "enrolSaved"
       /\ \/ res = "ok" /\ Save /\ mem' = Enrolled
          \/ res = "refused" /\ Replace /\ UNCHANGED mem
          \/ res = "error" /\ CertUsable(mem) /\ Save /\ UNCHANGED mem
          \/ res = "error" /\ ~CertUsable(mem) /\ Fail
    \/ pc \in {"register", "enrolNew", "renew"} /\ res # "ok" /\ Fail
    \/ /\ pc = "register" /\ res = "ok"
       /\ mem' = [dev |-> d, cert |-> Absent, age |-> "expired"]
       /\ IF opt.masque THEN Call("enrol", "enrolNew")
          ELSE IF opt.team THEN Call("fetch", "fetchNew") ELSE Save
    \/ /\ pc = "enrolNew" /\ res = "ok"
       /\ mem' = Enrolled
       /\ IF opt.team THEN Call("fetch", "fetchNew") ELSE Save
    \/ pc = "fetchNew" /\ Save /\ UNCHANGED mem
    \/ pc = "renew" /\ res = "ok" /\ mem' = Enrolled /\ pc' = "resave" /\ call' = NoCall

\* Mutant: only the second route's refusal of an enrolment is reported.
CombinedLast(answer) ==
    IF answer = "ok" THEN "ok"
    ELSE IF answer \in Refuses /\ call.op # "register" THEN "refused" ELSE "error"

\* How a call ends on the second route.  Registration has no identity to be
\* refused; enrolment reports a refusal by either route; the profile only the
\* last one's.
Combined(answer) ==
    IF answer = "ok" THEN "ok"
    ELSE IF \/ call.op \in {"enrol", "fetch"} /\ answer \in Refuses
            \/ call.op = "enrol" /\ call.refused
         THEN "refused" ELSE "error"

\* One request of a call: send_with_retry on the direct route, then one
\* fallback_call.  The service may apply it, and the answer may not arrive.  A
\* registration whose enrolment then fails is dropped: nothing has saved it yet.
Attempt ==
    /\ call.op # "none"
    /\ \E d \in IF call.op = "register" THEN FreeDevices \cup {Absent} ELSE {mem.dev} :
       LET alive == call.op = "register" \/ d \in server.live IN
       \E applied \in IF alive /\ d # Absent THEN BOOLEAN ELSE {FALSE} :
       \E answer \in Answers(applied, alive) :
          /\ calm => answer \in {"ok", "refused"}
          /\ IF applied THEN Apply(d) ELSE UNCHANGED server
          /\ refusals' = IF answer = "refused" THEN refusals \cup {<<d, call.op>>} ELSE refusals
          /\ IF answer # "ok" /\ call.route = "direct"
             THEN /\ call' = IF answer \in Retryable /\ MayRetry
                             THEN [call EXCEPT !.tries = @ + 1]
                             ELSE [call EXCEPT !.route = "front", !.refused = answer \in Refuses]
                  /\ UNCHANGED <<mem, pc>>
             ELSE Outcome(Combined(answer), d)
          /\ saved' = saved \ (IF applied /\ call.op = "register" THEN {d} ELSE {})
    /\ UNCHANGED <<opt, disk, calm>>

-----------------------------------------------------------------------------
(* The life of a process.                                                  *)

\* start: config::load, then what the identity on disk calls for.
LoadOrProvision ==
    /\ pc = "off"
    /\ refusals' = {}
    /\ \/ disk = Absent /\ Call("register", "register") /\ UNCHANGED <<mem, disk>>
       \/ \* quarantine, if the rename succeeds; the start fails either way
          /\ disk = Damaged
          /\ disk' \in IF calm THEN {Absent} ELSE {Absent, Damaged}
          /\ UNCHANGED <<mem, pc, call>>
       \/ /\ disk \notin {Absent, Damaged}
          /\ mem' = disk
          /\ IF opt.masque /\ ~HasCredentials(disk) THEN Call("enrol", "enrolSaved")
             ELSE IF opt.team THEN Call("fetch", "fetchSaved") ELSE Save
          /\ UNCHANGED disk
    /\ UNCHANGED <<opt, server, calm, saved>>

\* config::save: the whole file or none of it (write_private).  A failure ends
\* the start; after a renewal it is only logged.
Write ==
    /\ pc \in {"save", "resave"}
    /\ \/ disk' = mem /\ saved' = saved \cup DeviceOf(mem) /\ pc' = "ready" /\ UNCHANGED <<mem, call>>
       \/ /\ ~calm
          /\ IF pc = "resave" THEN pc' = "ready" /\ UNCHANGED <<mem, call>> ELSE Fail
          /\ UNCHANGED <<disk, saved>>
    /\ UNCHANGED <<opt, server, calm, refusals>>

\* Mutant: a refused certificate is dialled again and again.
NeverRenew == pc = "ready" /\ opt.masque /\ ~Usable /\ UNCHANGED identityVars

\* The gateways refuse the certificate: refresh_refused_masque_identity.
GatewaysRefuse ==
    /\ pc = "ready"
    /\ opt.masque
    /\ ~Usable
    /\ Call("enrol", "renew")
    /\ UNCHANGED <<opt, server, disk, mem, calm, saved, refusals>>

\* The run ends, or the process is killed in the middle of anything.  Once calm,
\* only the user ends a run, and not one whose gateways are still refusing it.
EndProcess ==
    /\ pc # "off"
    /\ calm => pc = "ready" /\ (Usable \/ ~opt.masque)
    /\ Fail
    /\ UNCHANGED <<opt, server, disk, calm, saved, refusals>>

\* The file is damaged, or the certificate in it grows old, between two runs.
Corrupt ==
    /\ pc = "off" /\ ~calm /\ disk \notin {Absent, Damaged}
    /\ disk' = Damaged
    /\ saved' = saved \ DeviceOf(disk)
    /\ UNCHANGED <<opt, server, mem, pc, call, calm, refusals>>

Age ==
    /\ pc = "off" /\ ~calm /\ disk \notin {Absent, Damaged}
    /\ disk.cert # Absent
    /\ disk' = [disk EXCEPT !.age = IF @ = "fresh" THEN "expiring" ELSE "expired"]
    /\ UNCHANGED <<opt, server, mem, pc, call, calm, saved, refusals>>

\* The service drops a registration.
Delete(d) ==
    /\ ~calm
    /\ d \in server.live
    /\ server' = [live |-> server.live \ {d}, key |-> [server.key EXCEPT ![d] = Absent]]
    /\ UNCHANGED <<opt, disk, mem, pc, call, calm, saved, refusals>>

\* From here on answers arrive, writes succeed and nothing dies.
CalmDown ==
    /\ ~calm
    /\ FreeDevices # {}
    /\ calm' = TRUE
    /\ UNCHANGED <<opt, server, disk, mem, pc, call, saved, refusals>>

Work == Attempt \/ LoadOrProvision \/ Write \/ GatewaysRefuse

IdentityNext ==
    \/ Work \/ EndProcess \/ Corrupt \/ Age \/ CalmDown
    \/ \E d \in Devices : Delete(d)

IdentitySpec == IdentityInit /\ [][IdentityNext]_identityVars

\* A user ends a run that carries nothing and starts again.
FairIdentity == IdentitySpec /\ WF_identityVars(Work) /\ WF_identityVars(EndProcess /\ calm /\ ~Usable)

-----------------------------------------------------------------------------
(* Properties.                                                             *)

\* A registration that was saved and that the service still honours is given up
\* only with a damaged file: no answer short of a refusal (403, 5xx, silence), no
\* failed write and no death of the process costs one.  Until it is first saved a
\* fresh registration has no such promise: a failed enrolment drops it.
NoChurn == saved \cap server.live \subseteq DeviceOf(disk)

\* An enrolment that either route saw refused never ends with the refused
\* registration in use, unless AETHER_REPROVISION=0 asks for it.
RefusalReplaced ==
    pc \in {"save", "ready"} /\ opt.reprovision => <<mem.dev, "enrol">> \notin refusals

\* The same of the profile refresh, as the comment in enroll_key has it: "If
\* either route got a definitive answer, that is the finding".
RefusalIsTheFinding ==
    pc \in {"save", "ready"} /\ opt.reprovision => <<mem.dev, "fetch">> \notin refusals

\* Once the faults are over, repeated starts end with an identity that works: a
\* damaged file, a lost enrolment or an unsaved key is repaired.
Repairs ==
    calm /\ opt.reprovision
         /\ (opt.team \/ DeviceOf(disk) \cup DeviceOf(mem) \subseteq server.live)
    ~> pc = "ready" /\ Usable

\* The same of a registration the service has dropped, on a personal account.
DeadDeviceReplaced ==
    calm /\ opt.reprovision /\ opt.masque ~> pc = "ready" /\ Usable
=============================================================================
