-------------------------- MODULE ContainerMetrics --------------------------
(***************************************************************************)
(* What cmd/test-runner measures while the tests run: ContainerMetrics,    *)
(* filled by the sampler from `podman stats' and read by the report.       *)
(* Memory stands for every peak of one sample (CPU and PIDs are treated    *)
(* alike), one I/O counter for the four of network and block devices.      *)
(* Amounts are counted in parts of a byte, Fine to the byte, because       *)
(* Podman prints decimals of larger units ("388.5kB").                     *)
(*                                                                         *)
(* External: containers come and go, their memory varies, their I/O        *)
(* counters grow and are lost with them, and Podman reads one container    *)
(* after the other while all this goes on.                                 *)
(***************************************************************************)
EXTENDS Naturals, Sequences, FiniteSets, Functions

CONSTANTS
    Containers,
    Name,                   \* of each container
    Images, Services,       \* image references and harness.service labels
    MemSizes, IOSizes,      \* the sizes Podman prints
    Fine,                   \* 1000: Podman prints at most three decimals
    Decimal, Binary,        \* 1000 and 1024
    MaxPolls                \* bound: how often the sampler polls

ASSUME ContainersAssumption == IsFiniteSet(Containers)

ASSUME UnitsAssumption ==
    Fine \in Nat \ {0} /\ Decimal \in Nat \ {0} /\ Binary \in Nat \ {0}

\* "1.001kB" has num 1001 (with Fine 1000), and short says that ParseFloat
\* times 1000 falls just short of 1001; that happens to decimals only.
ASSUME SizesAssumption ==
    MemSizes \cup IOSizes \subseteq
        [num : Nat, suffix : {"B", "kB", "MB", "GB", "TB", "KiB", "MiB", "GiB"},
         short : BOOLEAN]

ASSUME ShortAssumption ==
    \A size \in MemSizes \cup IOSizes : size.short => size.num % Fine # 0

ASSUME PollsAssumption == MaxPolls \in Nat

\* Factors of parseHumanBytes: it knows no terabytes.
Factor == [B |-> 1,
           kB |-> Decimal, MB |-> Decimal * Decimal,
           GB |-> Decimal * Decimal * Decimal,
           KiB |-> Binary, MiB |-> Binary * Binary,
           GiB |-> Binary * Binary * Binary]

Larger(a, b) == IF a < b THEN b ELSE a

\* What int64 leaves of the product: whole bytes, one less than there are when
\* the product falls short of a whole number.
Truncated(amount, short) ==
    IF short /\ amount % Fine = 0
    THEN Larger(amount, Fine) - Fine
    ELSE amount - (amount % Fine)

\* Seeded fault: no kilobytes either.
ParseNoKilobytes(size) ==
    IF size.suffix \in DOMAIN Factor \ {"kB"}
    THEN Truncated(size.num * Factor[size.suffix], size.short)
    ELSE 0

\* "1TB" ends in "B", "1T" is no number: nothing matches and the result is 0.
ParseHumanBytes(size) ==
    IF size.suffix \in DOMAIN Factor
    THEN Truncated(size.num * Factor[size.suffix], size.short)
    ELSE 0

\* What the size is.
Bytes(size) ==
    size.num * IF size.suffix = "TB" THEN Decimal * Factor.GB ELSE Factor[size.suffix]

VARIABLES
    status,     \* of each container: "new", "up" or "gone"
    mem, io,    \* what Podman would print of each container
    polls,      \* polls so far
    phase,      \* of the sampler, then of the report
    pending,    \* containers still to be read, or entries still to be added
    sample,     \* entries of the poll in progress, or of the last one
    current,    \* sums of update while it runs: currentTotalMem, totalNetRx
    known,      \* Containers: what inspect said on the first sample
    peakMem,    \* PeakContainerMem
    peakTotal,  \* PeakTotalMemBytes
    latestIO,   \* LatestNetRxBytes
    names,      \* display names in the report
    highest     \* ghost: the most memory each container has used

engine == <<status, mem, io, highest>>
metrics == <<known, peakMem, peakTotal, latestIO>>
vars == <<engine, polls, phase, pending, sample, current, metrics, names>>

\* An image reference or a container name: extractImageShortName drops the
\* repository, the tag or digest and the vendor prefix "cp-".
NoReference == [repo |-> "", vendor |-> "", base |-> "", tag |-> ""]

ShortName(image) == IF image = NoReference THEN "container" ELSE image.base

Nothing == [c \in {} |-> 0]    \* no entries, no containers

Zero == [mem |-> 0, io |-> 0]

TypeOK ==
    /\ status \in [Containers -> {"new", "up", "gone"}]
    /\ mem \in [Containers -> MemSizes] /\ io \in [Containers -> IOSizes]
    /\ polls \in 0..MaxPolls
    /\ phase \in {"select", "poll", "update", "done", "reported"}
    /\ pending \subseteq Containers
    /\ DOMAIN sample \subseteq Containers
    /\ \A c \in DOMAIN sample : sample[c] \in [mem : MemSizes, io : IOSizes]
    /\ current \in [mem : Nat, io : Nat]
    /\ DOMAIN known \subseteq Containers
    /\ peakMem \in [Containers -> Nat]
    /\ peakTotal \in Nat /\ latestIO \in Nat
    /\ DOMAIN names \subseteq Containers
    /\ highest \in [Containers -> Nat]

Init ==
    /\ status = [c \in Containers |-> "new"]
    /\ \E zero \in {s \in MemSizes \cap IOSizes : Bytes(s) = 0} :
          mem = [c \in Containers |-> zero] /\ io = [c \in Containers |-> zero]
    /\ highest = [c \in Containers |-> 0]
    /\ polls = 0 /\ phase = "select"
    /\ pending = {} /\ sample = Nothing /\ current = Zero
    /\ known = Nothing /\ peakMem = [c \in Containers |-> 0]
    /\ peakTotal = 0 /\ latestIO = 0 /\ names = Nothing

-----------------------------------------------------------------------------
(* The engine, as long as somebody looks *)

Observed == phase \in {"select", "poll", "update"}

Start(c) ==
    /\ Observed
    /\ status[c] = "new"
    /\ status' = [status EXCEPT ![c] = "up"]
    /\ UNCHANGED <<mem, io, highest, polls, phase, pending, sample, current, metrics, names>>

\* Memory varies, the I/O counter grows; during an update nobody looks.
Work(c) ==
    /\ phase \in {"select", "poll"}
    /\ status[c] = "up"
    /\ \E m \in MemSizes, n \in {s \in IOSizes : Bytes(s) >= Bytes(io[c])} :
          /\ mem' = [mem EXCEPT ![c] = m]
          /\ io' = [io EXCEPT ![c] = n]
          /\ highest' = [highest EXCEPT ![c] = Larger(@, Bytes(m))]
    /\ UNCHANGED <<status, polls, phase, pending, sample, current, metrics, names>>

End(c) ==
    /\ Observed
    /\ status[c] = "up"
    /\ status' = [status EXCEPT ![c] = "gone"]
    /\ UNCHANGED <<mem, io, highest, polls, phase, pending, sample, current, metrics, names>>

-----------------------------------------------------------------------------
(* The sampler *)

Up == {c \in Containers : status[c] = "up"}

Tick ==
    /\ phase = "select" /\ phase' = "poll"
    /\ polls < MaxPolls /\ polls' = polls + 1
    /\ pending' = Up
    /\ sample' = Nothing
    /\ UNCHANGED <<engine, current, metrics, names>>

Entry(c) == [mem |-> mem[c], io |-> io[c]]

\* Podman reads one container, which may have ended since it was listed.
Read(c) ==
    /\ phase = "poll" /\ c \in pending
    /\ pending' = pending \ {c}
    /\ sample' = IF status[c] = "up"
                 THEN [d \in DOMAIN sample \cup {c} |-> IF d = c THEN Entry(c) ELSE sample[d]]
                 ELSE sample
    /\ UNCHANGED <<engine, polls, phase, current, metrics, names>>

\* podman stats failed or timed out, or there is nothing to add.
PollFails ==
    /\ phase = "poll" /\ phase' = "select"
    /\ pending' = {} /\ sample' = Nothing
    /\ UNCHANGED <<engine, polls, current, metrics, names>>

PollEnds ==
    /\ phase = "poll" /\ phase' = "update"
    /\ pending = {} /\ DOMAIN sample # {}
    /\ pending' = DOMAIN sample
    /\ UNCHANGED <<engine, polls, sample, current, metrics, names>>

\* inspectContainer may find any image and label, but fails after 2 s and
\* for a container that is gone.
Inspect(c) ==
    LET failed == [image |-> NoReference, service |-> ""]
    IN  {found \in [image : Images, service : Services] \cup {failed} :
            found = failed \/ status[c] = "up"}

Resolve(c, found) ==
    [image |-> found.image, service |-> found.service,
     short |-> IF ShortName(found.image) \in {"container", ""} THEN ShortName(Name[c])
               ELSE ShortName(found.image)]

\* Seeded fault: a container is inspected on every sample.
MetadataEachTime(c) ==
    \E found \in Inspect(c) :
       known' = [d \in DOMAIN known \cup {c} |-> IF d = c THEN Resolve(c, found) ELSE known[d]]

\* Metadata is resolved on the first sample of a container.
Metadata(c) ==
    IF c \in DOMAIN known THEN UNCHANGED known
    ELSE \E found \in Inspect(c) :
            known' = [d \in DOMAIN known \cup {c} |->
                         IF d = c THEN Resolve(c, found) ELSE known[d]]

\* One round of the loop in update: the entry counts for its container and
\* for the sums.
AddEntry(c) ==
    /\ phase = "update" /\ c \in pending
    /\ pending' = pending \ {c}
    /\ Metadata(c)
    /\ LET used == ParseHumanBytes(sample[c].mem)
       IN  /\ peakMem' = [peakMem EXCEPT ![c] = Larger(@, used)]
           /\ current' = [mem |-> current.mem + used,
                          io |-> current.io + ParseHumanBytes(sample[c].io)]
    /\ UNCHANGED <<engine, polls, phase, sample, peakTotal, latestIO, names>>

\* Seeded fault: the total is what was added since the last sample.
TotalIsDelta ==
    /\ phase = "update" /\ phase' = "select"
    /\ pending = {}
    /\ peakTotal' = Larger(peakTotal, current.mem)
    /\ latestIO' = current.io - latestIO
    /\ current' = Zero
    /\ UNCHANGED <<engine, polls, pending, sample, known, peakMem, names>>

\* Seeded fault: the totals of the samples are added up.
TotalsAddUp ==
    /\ phase = "update" /\ phase' = "select"
    /\ pending = {}
    /\ peakTotal' = Larger(peakTotal, current.mem)
    /\ latestIO' = latestIO + current.io
    /\ current' = Zero
    /\ UNCHANGED <<engine, polls, pending, sample, known, peakMem, names>>

\* Seeded fault: the totals are those of the last sample.
TotalsOfLatest ==
    /\ phase = "update" /\ phase' = "select"
    /\ pending = {}
    /\ peakTotal' = current.mem
    /\ latestIO' = current.io
    /\ current' = Zero
    /\ UNCHANGED <<engine, polls, pending, sample, known, peakMem, names>>

\* Seeded fault: the sums of one sample are the start of the next.
CurrentKept ==
    /\ phase = "update" /\ phase' = "select"
    /\ pending = {}
    /\ peakTotal' = Larger(peakTotal, current.mem)
    /\ latestIO' = Larger(latestIO, current.io)
    /\ UNCHANGED <<engine, polls, pending, sample, current, known, peakMem, names>>

UpdateEnds ==
    /\ phase = "update" /\ phase' = "select"
    /\ pending = {}
    /\ peakTotal' = Larger(peakTotal, current.mem)
    /\ latestIO' = Larger(latestIO, current.io)
    /\ current' = Zero
    /\ UNCHANGED <<engine, polls, pending, sample, known, peakMem, names>>

SamplerStops ==
    /\ phase = "select" /\ phase' = "done"
    /\ sample' = Nothing
    /\ UNCHANGED <<engine, polls, pending, current, metrics, names>>

-----------------------------------------------------------------------------
(* The report *)

Alike(c) == {d \in DOMAIN known : known[d].short = known[c].short}

HasRole(c) == known[c].service # "" /\ known[c].service # known[c].short

\* Seeded fault: numbers start anew for every container.
NumberOfOne(c, order) == 1

\* nameIndexTracker: the place of c among the alike without a role, in the
\* order in which the map is walked.
Number(c, order) ==
    Cardinality({i \in DOMAIN order :
        /\ order[i] \in Alike(c) /\ ~HasRole(order[i])
        /\ \A j \in DOMAIN order : order[j] = c => i <= j})

DisplayName(c, order) ==
    [short |-> known[c].short,
     role |-> IF Cardinality(Alike(c)) > 1 /\ HasRole(c) THEN known[c].service ELSE "",
     number |-> IF Cardinality(Alike(c)) > 1 /\ ~HasRole(c) THEN Number(c, order) ELSE 0]

\* Go walks a map in any order.
PrintReport ==
    /\ phase = "done" /\ phase' = "reported"
    /\ \E order \in Bijection(1..Cardinality(DOMAIN known), DOMAIN known) :
          names' = [c \in DOMAIN known |-> DisplayName(c, order)]
    /\ UNCHANGED <<engine, polls, pending, sample, current, metrics>>

Reported == phase = "reported" /\ UNCHANGED vars

Next ==
    \/ \E c \in Containers :
          Start(c) \/ Work(c) \/ End(c) \/ Read(c) \/ AddEntry(c)
    \/ Tick \/ PollFails \/ PollEnds \/ UpdateEnds
    \/ SamplerStops \/ PrintReport \/ Reported

Spec == Init /\ [][Next]_vars

-----------------------------------------------------------------------------

Sum(f) == SumFunction(f)

\* Whenever mu is free, no container's peak is above the peak of the total
\* (main.go:172-177 and 206-208 are updated one after the other): the report
\* never shows a container that used more than all of them.
PeaksWithinTotal ==
    phase # "update" => \A c \in Containers : peakMem[c] <= peakTotal

\* The report never overstates: a container's peak is memory it once used,
\* the peak of the total is at most the sum of those, and the I/O total is at
\* most what all containers ever did, however the reads of one poll, the
\* work and the ends of containers interleave.
NothingOverstated ==
    /\ \A c \in Containers : peakMem[c] <= highest[c]
    /\ peakTotal <= Sum(highest)
    /\ latestIO <= Sum([c \in Containers |-> Bytes(io[c])])

\* As long as no container has ended and none did terabytes, the I/O total of
\* a sample that is still up to date lacks at most a byte per container, what
\* int64 cuts off (README:329, as far as it holds: what ended containers did
\* is lost).  That it is never too much says NothingOverstated.
IOTotalClose ==
    /\ phase = "select" /\ DOMAIN sample = Up
    /\ \A c \in Containers : status[c] # "gone" /\ io[c].suffix # "TB"
    /\ \A c \in Up : sample[c].io = io[c]
    => Sum([c \in Containers |-> Bytes(io[c])]) <= latestIO + Fine * Cardinality(Up)

\* Two containers in one report have the same display name only if they have
\* the same image name and the same service label; containers without a
\* label are never confused (main.go:617-644), in whatever order the map is
\* walked and however many inspections failed.
NamesIdentifyRoles ==
    \A c, d \in DOMAIN names :
        c # d /\ names[c] = names[d] =>
            known[c].service # "" /\ known[c].service = known[d].service

\* A peak or a total never falls, and what is known of a container is never
\* changed or forgotten, while samples, failed polls and ends interleave.
MeasuresOnlyGrow ==
    [][/\ \A c \in Containers : peakMem'[c] >= peakMem[c]
       /\ peakTotal' >= peakTotal /\ latestIO' >= latestIO
       /\ \A c \in DOMAIN known : c \in DOMAIN known' /\ known'[c] = known[c]]_vars

(* Refinement *)

\* What update reads of each container: nothing of one without an entry.
Reading(c) ==
    IF c \in DOMAIN sample
    THEN [mem |-> ParseHumanBytes(sample[c].mem), io |-> ParseHumanBytes(sample[c].io)]
    ELSE Zero

Readings ==
    {Zero} \cup {[mem |-> ParseHumanBytes(m), io |-> ParseHumanBytes(n)] :
                    m \in MemSizes, n \in IOSizes}

\* A sample counts from the moment update has it: who reads the metrics waits
\* for mu until the last entry is added.
Counting == phase = "update"

Shown == INSTANCE Gauge WITH
    peakMem <- [c \in Containers |->
        IF Counting /\ c \in pending THEN Larger(peakMem[c], Reading(c).mem) ELSE peakMem[c]],
    peakTotal <- IF Counting
        THEN Larger(peakTotal, Sum([c \in Containers |-> Reading(c).mem])) ELSE peakTotal,
    latestIO <- IF Counting
        THEN Larger(latestIO, Sum([c \in Containers |-> Reading(c).io])) ELSE latestIO

\* Entry by entry, in any order, while containers start, end and are inspected,
\* update does what taking the whole sample at once would do: no entry is
\* counted twice or left out, and nothing of one sample gets into the next.
ImplementsGauge == Shown!Spec
=============================================================================
