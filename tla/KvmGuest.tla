------------------------------ MODULE KvmGuest ------------------------------
(***************************************************************************)
(* A confidential guest on AMD SEV-SNP (kvm/sev): messages to the firmware *)
(* with sequence numbers, and changes of pages between private and shared, *)
(* both through an exit to the hypervisor, which may fail or stop halfway. *)
(* One goroutine uses the GHCB at a time.                                  *)
(***************************************************************************)
EXTENDS Naturals, FiniteSets

CONSTANTS
    GuestPages,     \* page numbers
    MaxPSCEntries,
    MaxGuestCalls   \* bound: calls

VARIABLES
    layout,         \* Layout is set: init was called
    seqNo,
    gpc,            \* "idle", "exit", "returned" of a request, "psc", "pscExit", ...
    request, answer,    \* sequence numbers of the request and the response
    outcome,        \* "ok", or "error"
    firmware,       \* the count of the firmware: of messages either way
    lost,           \* a message the firmware took was not answered
    guestCalls
VARIABLES
    rmp, validated, \* pages assigned to the guest; pages validated by it
    range, private, \* arguments of PageStateChange
    entries,        \* the entries of the request
    cur             \* CurEntry, as the hypervisor left it

requestVars == <<seqNo, request, answer, firmware, lost>>
pageVars == <<rmp, validated, range, private, entries, cur>>
vars == <<layout, gpc, outcome, guestCalls, requestVars, pageVars>>

Init ==
    /\ layout = FALSE /\ seqNo = 0 /\ gpc = "idle" /\ outcome = "ok"
    /\ request = 0 /\ answer = 0
    /\ firmware = 0 /\ lost = FALSE /\ guestCalls = 0
    /\ rmp = GuestPages /\ validated = GuestPages
    /\ range = {} /\ private = FALSE /\ entries = {} /\ cur = 0

-----------------------------------------------------------------------------
(* Guest messages.                                                         *)

\* sealMessage, with the sequence number as it is; Exit initializes the layout
\* when it is first used, and with it the sequence number
GuestRequest ==
    /\ gpc = "idle" /\ guestCalls < MaxGuestCalls
    /\ guestCalls' = guestCalls + 1
    /\ request' = seqNo /\ answer' = 0
    /\ layout' = TRUE /\ seqNo' = IF layout THEN seqNo ELSE 1
    /\ gpc' = "exit"
    /\ UNCHANGED <<outcome, firmware, lost, pageVars>>

\* the firmware takes a message with the next number and answers with the one after
HwFirmware ==
    /\ gpc = "exit" /\ request = firmware + 1
    /\ firmware' = firmware + 2 /\ answer' = firmware + 2
    /\ gpc' = "answered"
    /\ UNCHANGED <<layout, seqNo, outcome, request, lost, guestCalls, pageVars>>

\* mutant: the message is counted before the exit
ExitErrorCounted ==
    /\ gpc \in {"exit", "answered"}
    /\ lost' = IF gpc = "answered" THEN TRUE ELSE lost
    /\ seqNo' = seqNo + 1
    /\ outcome' = "error" /\ gpc' = "returned"
    /\ UNCHANGED <<layout, guestCalls, request, answer, firmware, pageVars>>

\* Exit finds an error, before or after the firmware had the message
ExitError ==
    /\ gpc \in {"exit", "answered"}
    /\ lost' = IF gpc = "answered" THEN TRUE ELSE lost
    /\ outcome' = "error" /\ gpc' = "returned"
    /\ UNCHANGED <<layout, guestCalls, seqNo, request, answer, firmware, pageVars>>

\* openMessage, after the number was counted up once: the response must have the
\* number after, or cannot be opened
openMessage ==
    /\ gpc = "answered"
    /\ \/ answer = seqNo + 1 /\ seqNo' = seqNo + 2 /\ outcome' = "ok" /\ UNCHANGED lost
       \/ seqNo' = seqNo + 1 /\ outcome' = "error" /\ lost' = TRUE
    /\ gpc' = "returned"
    /\ UNCHANGED <<layout, request, answer, firmware, guestCalls, pageVars>>

Return ==
    /\ gpc \in {"returned", "pscReturned"} /\ gpc' = "idle"
    /\ UNCHANGED <<layout, outcome, guestCalls, requestVars, pageVars>>

-----------------------------------------------------------------------------
(* Page state changes.                                                     *)

\* the first n pages of a range
FirstOf(s, n) == {p \in s : Cardinality({q \in s : q < p}) < n}

\* pages that become shared are invalidated as their entries are added, up to an
\* error of pvalidate or the last entry
PageStateChange(s, priv) ==
    LET fits == Cardinality(s) <= MaxPSCEntries IN
    /\ gpc = "idle" /\ guestCalls < MaxGuestCalls
    /\ guestCalls' = guestCalls + 1
    /\ range' = s /\ private' = priv /\ cur' = 0
    /\ entries' = FirstOf(s, MaxPSCEntries)
    /\ \E n \in 0 .. MaxPSCEntries :
          /\ n <= Cardinality(s) /\ (priv => n = Cardinality(FirstOf(s, MaxPSCEntries)))
          /\ validated' = IF priv THEN validated ELSE validated \ FirstOf(s, n)
          /\ IF fits /\ n = Cardinality(s)
             THEN /\ gpc' = "psc" /\ layout' = TRUE /\ seqNo' = IF layout THEN seqNo ELSE 1
                  /\ UNCHANGED outcome
             ELSE /\ gpc' = "pscDefer" /\ outcome' = "error" /\ UNCHANGED <<layout, seqNo>>
    /\ UNCHANGED <<rmp, request, answer, firmware, lost>>

\* the hypervisor changes some entries, in their order; an error may be reported
HwPsc ==
    /\ gpc = "psc"
    /\ \E n \in 0 .. Cardinality(entries) :
          /\ rmp' = IF private THEN rmp \cup FirstOf(entries, n) ELSE rmp \ FirstOf(entries, n)
          /\ cur' = n
    /\ gpc' = "pscExit"
    /\ UNCHANGED <<layout, outcome, guestCalls, requestVars, validated, range, private, entries>>

\* mutant: the count of entries is off by one
PscResultFew ==
    /\ gpc = "pscExit"
    /\ outcome' = IF entries # {} /\ cur + 1 >= Cardinality(entries) THEN "ok" ELSE "error"
    /\ gpc' = "pscDefer"
    /\ UNCHANGED <<layout, guestCalls, requestVars, pageVars>>

\* CurEntry must be past the last entry, which is -1 as a uint16 if there is none
PscResult ==
    /\ gpc = "pscExit"
    /\ outcome' \in {"error"} \cup
            (IF entries # {} /\ cur > Cardinality(entries) - 1 THEN {"ok"} ELSE {})
    /\ gpc' = "pscDefer"
    /\ UNCHANGED <<layout, guestCalls, requestVars, pageVars>>

\* pages that become private are validated by the deferred functions, after errors
\* as well; pvalidate fails on a page that is not assigned to the guest
PscDefer ==
    /\ gpc = "pscDefer"
    /\ IF private
       THEN /\ validated' = validated \cup (entries \cap rmp)
            /\ outcome' = IF entries \subseteq rmp THEN outcome ELSE "error"
       ELSE UNCHANGED <<validated, outcome>>
    /\ gpc' = "pscReturned"
    /\ UNCHANGED <<layout, guestCalls, requestVars, rmp, range, private, entries, cur>>

Next ==
    \/ GuestRequest \/ HwFirmware \/ ExitError \/ openMessage \/ Return
    \/ \E s \in SUBSET GuestPages, priv \in BOOLEAN :
          /\ \A p, q, k \in GuestPages : p \in s /\ q \in s /\ p < k /\ k < q => k \in s
          /\ PageStateChange(s, priv)
    \/ HwPsc \/ PscResult \/ PscDefer

Spec == Init /\ [][Next]_vars

-----------------------------------------------------------------------------

\* As long as no message was lost after the firmware took it, the next one has the
\* number that the firmware expects, after exits that failed as well.
InSequence == gpc = "idle" /\ layout /\ ~lost => seqNo = firmware + 1

\* When PageStateChange returns without error every page of the range has the
\* state that was asked for, with the hypervisor and with the processor.
PagesAsAsked ==
    gpc = "pscReturned" /\ outcome = "ok" =>
        IF private THEN range \subseteq rmp \cap validated ELSE range \cap (rmp \cup validated) = {}

\* A page is validated only while it is assigned to the guest, in the middle of a
\* change and after one that failed as well.
SharedInvalid == validated \subseteq rmp

-----------------------------------------------------------------------------
(***************************************************************************)
(* The KVM clock: the host writes time information to memory it shares     *)
(* with the guest, under a version that is odd meanwhile, and pvClockSync  *)
(* sets the system time from it.  The guest copies the structure field by  *)
(* field, twice, and the host may write at any time, so that what is       *)
(* copied can be part old, part new.                                       *)
(***************************************************************************)

CONSTANTS
    Versions,       \* numbers of versions: the counter wraps
    MaxUpdates      \* bound: updates by the host

VARIABLES
    shared,         \* timeInfoBuffer: version, and the update each other field is of
    hpc, updates,   \* the host: step, updates made
    vpc, version,   \* pvClockSync: step, last version used
    timeInfo,       \* its copy
    adjusted        \* updates the fields are of that the time was set from

clockVars == <<shared, hpc, updates, vpc, version, timeInfo, adjusted>>
guest == <<vpc, version, timeInfo, adjusted>>

\* at the start, or when the version is about to wrap
ClockInit ==
    /\ version \in {0, Versions - 2}
    /\ shared = [version |-> IF version = 0 THEN 2 ELSE version, timestamp |-> 0, systemTime |-> 0]
    /\ adjusted = IF version = 0 THEN << >> ELSE << 0, 0 >>
    /\ timeInfo = [version |-> version, timestamp |-> 0, systemTime |-> 0]
    /\ hpc = "idle" /\ updates = 0 /\ vpc = "sleep"

\* the host
HwBegin ==
    /\ hpc = "idle" /\ updates < MaxUpdates
    /\ shared' = [shared EXCEPT !.version = (@ + 1) % Versions]
    /\ updates' = updates + 1 /\ hpc' = "timestamp" /\ UNCHANGED guest

HwWrite ==
    /\ \/ hpc = "timestamp" /\ shared' = [shared EXCEPT !.timestamp = updates] /\ hpc' = "systemTime"
       \/ hpc = "systemTime" /\ shared' = [shared EXCEPT !.systemTime = updates] /\ hpc' = "end"
       \/ hpc = "end" /\ shared' = [shared EXCEPT !.version = (@ + 1) % Versions] /\ hpc' = "idle"
    /\ UNCHANGED <<updates, guest>>

\* binary.Decode: the next field, at step s with t to follow
Decode(s, field, t) ==
    /\ vpc = s /\ vpc' = t
    /\ timeInfo' = [timeInfo EXCEPT ![field] = shared[field]]
    /\ UNCHANGED <<shared, hpc, updates, version, adjusted>>

\* mutant: versions that are not newer are passed over
SyncOlder ==
    /\ vpc = "check"
    /\ IF timeInfo.version <= version \/ timeInfo.version % 2 = 1
       THEN vpc' = "sleep" /\ UNCHANGED version
       ELSE vpc' = "version2" /\ version' = timeInfo.version
    /\ UNCHANGED <<shared, hpc, updates, timeInfo, adjusted>>

\* pvClockSync, after its copy: again later, or the version is used
pvClockSync ==
    /\ vpc = "check"
    /\ IF timeInfo.version = version \/ timeInfo.version % 2 = 1
       THEN vpc' = "sleep" /\ UNCHANGED version
       ELSE vpc' = "version2" /\ version' = timeInfo.version
    /\ UNCHANGED <<shared, hpc, updates, timeInfo, adjusted>>

\* pvClock, after a copy of its own, and SetTime
pvClock ==
    /\ vpc = "set" /\ vpc' = "sleep"
    /\ adjusted' = << timeInfo.timestamp, timeInfo.systemTime >>
    /\ UNCHANGED <<shared, hpc, updates, version, timeInfo>>

Guest ==
    \/ Decode("sleep", "version", "timestamp") \/ Decode("timestamp", "timestamp", "systemTime")
    \/ Decode("systemTime", "systemTime", "check") \/ pvClockSync
    \/ Decode("version2", "version", "timestamp2") \/ Decode("timestamp2", "timestamp", "systemTime2")
    \/ Decode("systemTime2", "systemTime", "set") \/ pvClock

ClockNext == HwBegin \/ HwWrite \/ Guest

\* the host ends the update it began, the goroutine goes on
Fairness == WF_clockVars(HwWrite) /\ WF_clockVars(Guest)

ClockSpec == ClockInit /\ [][ClockNext]_clockVars /\ Fairness

-----------------------------------------------------------------------------

\* The time follows the host: when the host makes no more updates, the time is set,
\* for good, from the last, also if it was set from a mixture of updates before.
Follows == <>[](adjusted = << updates, updates >>)

=============================================================================
