--------------------------- MODULE TelemetrySample ---------------------------
(***************************************************************************)
(* The agent's telemetry sampler, internal/agent's telemetry_linux.go: the *)
(* readers of the files under /proc with their arithmetic on words, the    *)
(* CPU baseline that Sample keeps from one call to the next, and the       *)
(* validation of what it returns.                                          *)
(*                                                                         *)
(* A file is what the readers find in it: a record of numbers, with Bad    *)
(* for one that is absent or malformed.  The kernel's counters move by     *)
(* themselves, and may go back (a CPU is taken offline, iowait is          *)
(* corrected).                                                             *)
(***************************************************************************)
EXTENDS Integers, Sequences, SequencesExt

CONSTANTS
    Word,           \* bits of an unsigned word (64)
    Scale,          \* basis points of a whole (10000)
    Milli,          \* load units of a load of one (1000)
    KB,             \* bytes of a kB (1024)
    MaxWindow,      \* milliseconds that a sample may span (300000)
    Levels,         \* by counter, the values that it takes
    Files           \* what the other files may hold

Modulus == 2 ^ Word
MaxUint == Modulus - 1
MaxInt == 2 ^ (Word - 1) - 1
Bad == 0 - Modulus      \* no number of a file; also, the error of a reader

Idle == <<"idle", "iowait">>
Busy == <<"user", "nice", "system", "irq", "softirq", "steal">>

VARIABLES
    counters,               \* the kernel's
    hasCPUBaseline, lastCPUTotal, lastCPUIdle,      \* the sampler's
    window,                 \* time since lastCPUTime, up to one more than MaxWindow
    out,                    \* what Sample returned, until time passes
    seen                    \* history: the counters that Sample read last, the time
                            \* since then, and whether there was such a read

vars == <<counters, hasCPUBaseline, lastCPUTotal, lastCPUIdle, window, out, seen>>

Nothing == [kind |-> "nothing"]

Init ==
    /\ counters = [c \in DOMAIN Levels |-> 0]
    /\ hasCPUBaseline = FALSE
    /\ lastCPUTotal = 0
    /\ lastCPUIdle = 0
    /\ window = 0
    /\ out = Nothing
    /\ seen = [read |-> FALSE, counters |-> counters, window |-> 0]

-----------------------------------------------------------------------------
(* The readers *)

\* A sum of words that has wrapped is less than what was added.
Plus(a, b) == IF a = Bad \/ (a + b) % Modulus < b THEN Bad ELSE (a + b) % Modulus

AllOf(names) == FoldLeft(LAMBDA a, c : Plus(a, counters[c]), 0, names)

\* Total and idle ticks, or Bad.
readProcStatCPU ==
    LET idleAll == AllOf(Idle)
        nonIdle == AllOf(Busy)
        total == IF Bad \in {idleAll, nonIdle} THEN Bad ELSE Plus(idleAll, nonIdle)
    IN  [total |-> total, idle |-> idleAll]

NoBytes == [total |-> Bad, used |-> Bad, avail |-> Bad]

readProcMeminfo(f) ==
    IF \/ f.total <= 0 \/ f.total > MaxInt \div KB
       \/ f.avail < 0 \/ f.avail > MaxInt \div KB
       \/ f.avail > f.total
    THEN NoBytes
    ELSE [total |-> f.total * KB, used |-> (f.total - f.avail) * KB, avail |-> f.avail * KB]

\* parseLoadMilli, for each of the three.
readProcLoadavg(f) == IF f < 0 \/ f > MaxInt \div Milli THEN Bad ELSE f * Milli

readProcUptime(f) == IF f < 0 \/ f > MaxInt THEN Bad ELSE f

\* int64 of an unsigned word.
AsInt(x) == LET u == x % Modulus IN IF u > MaxInt THEN u - Modulus ELSE u

FSBytes(f) ==
    LET total == AsInt(f.blocks * f.bsize)
        used == total - AsInt(f.bfree * f.bsize)
        avail == AsInt(f.bavail * f.bsize)
    IN  IF total <= 0 \/ used < 0 \/ used > total \/ avail < 0 \/ avail > total - used
        THEN NoBytes ELSE [total |-> total, used |-> used, avail |-> avail]

\* Fault: the product is only checked once it has been made.
readRootFS_ChecksLater(f) ==
    IF f.bsize = 0 \/ f.blocks = 0 \/ f.bfree > f.blocks \/ f.bavail > f.bfree
    THEN NoBytes ELSE FSBytes(f)

readRootFS(f) ==
    IF f.bsize = 0 THEN NoBytes
    ELSE IF f.blocks = 0 \/ f.blocks > MaxInt \div f.bsize \/ f.bfree > f.blocks \/ f.bavail > f.bfree
    THEN NoBytes ELSE FSBytes(f)

\* The sum of one column over the interfaces but the loopback.
Column(f, col) ==
    FoldLeft(LAMBDA sum, i : IF sum = Bad \/ i[col] < 0 \/ i[col] > MaxInt - sum THEN Bad
                             ELSE sum + i[col],
             0, SelectSeq(f, LAMBDA i : i.name # "lo"))

readProcNetDev(f) == [rx |-> Column(f, "rx"), tx |-> Column(f, "tx")]

-----------------------------------------------------------------------------
(* Sample *)

\* Usage in basis points; the product is made with big integers where a word would
\* not hold it.
BasisPoints(busyDelta, totalDelta) ==
    LET bp == IF busyDelta > MaxUint \div Scale
              THEN (busyDelta * Scale) \div totalDelta
              ELSE ((busyDelta * Scale) % Modulus) \div totalDelta
    IN  IF bp > Scale THEN Scale ELSE bp

ValidateTelemetryRequest(r) ==
    /\ r.cpu \in 0..Scale
    /\ r.mem.total > 0
    /\ r.mem.avail \in 0..r.mem.total
    /\ r.mem.used >= 0 /\ r.mem.used = r.mem.total - r.mem.avail
    /\ r.load >= 0
    /\ r.fs.total > 0
    /\ r.fs.used \in 0..r.fs.total
    /\ r.fs.avail \in 0..(r.fs.total - r.fs.used)
    /\ r.net.rx >= 0 /\ r.net.tx >= 0
    /\ r.uptime >= 0
    /\ r.window \in 1..MaxWindow

\* The request made of what the readers return, or the error of one of them.
Request(cpu, files) ==
    LET r == [kind |-> "report", cpu |-> cpu, window |-> window, files |-> files,
              mem |-> readProcMeminfo(files.mem), load |-> readProcLoadavg(files.load),
              fs |-> readRootFS(files.fs), net |-> readProcNetDev(files.net),
              uptime |-> readProcUptime(files.uptime)]
    IN  IF Bad \in {r.mem.total, r.load, r.fs.total, r.net.rx, r.net.tx, r.uptime}
        THEN [kind |-> "failed"]
        ELSE IF ~ValidateTelemetryRequest(r) THEN [kind |-> "invalid"] ELSE r

\* The window is out of bounds, or the counters have gone back or stood still.
Rebaselines(cur) ==
    \/ window < 1 \/ window > MaxWindow
    \/ cur.total <= lastCPUTotal
    \/ cur.idle < lastCPUIdle
    \/ cur.idle - lastCPUIdle > cur.total - lastCPUTotal

Baseline(cur) ==
    /\ hasCPUBaseline' = TRUE
    /\ lastCPUTotal' = cur.total
    /\ lastCPUIdle' = cur.idle
    /\ window' = 0

\* What the next window should be counted from.
Read == seen' = [read |-> TRUE, counters |-> counters, window |-> 0]

\* /proc/stat cannot be read, or its counters do not fit a word.
Unread ==
    /\ out' = [kind |-> "unread"]
    /\ UNCHANGED <<hasCPUBaseline, lastCPUTotal, lastCPUIdle, window, seen>>

Usage(cur) ==
    LET totalDelta == cur.total - lastCPUTotal
    IN  BasisPoints(totalDelta - (cur.idle - lastCPUIdle), totalDelta)

\* Fault: the baseline is advanced by a sample that succeeds.
Sample_BaselineLast(files) ==
    LET cur == readProcStatCPU IN
    /\ IF cur.total = Bad THEN Unread
       ELSE /\ out' = IF ~hasCPUBaseline \/ Rebaselines(cur) THEN [kind |-> "silent"]
                      ELSE Request(Usage(cur), files)
            /\ IF out'.kind = "failed"
               THEN UNCHANGED <<hasCPUBaseline, lastCPUTotal, lastCPUIdle, window>>
               ELSE Baseline(cur)
            /\ Read
    /\ UNCHANGED counters

\* The baseline advances before the other files are read, whatever becomes of them.
Sample(files) ==
    LET cur == readProcStatCPU IN
    /\ IF cur.total = Bad THEN Unread
       ELSE /\ out' = IF ~hasCPUBaseline \/ Rebaselines(cur) THEN [kind |-> "silent"]
                      ELSE Request(Usage(cur), files)
            /\ Baseline(cur)
            /\ Read
    /\ UNCHANGED counters

StatFails == Unread /\ UNCHANGED counters

-----------------------------------------------------------------------------
(* The machine *)

Count(c, v) ==
    /\ counters' = [counters EXCEPT ![c] = v]
    /\ out' = Nothing
    /\ UNCHANGED <<hasCPUBaseline, lastCPUTotal, lastCPUIdle, window, seen>>

Later(w) == IF w > MaxWindow THEN w ELSE w + 1

Elapse ==
    /\ window' = Later(window)
    /\ seen' = [seen EXCEPT !.window = Later(@)]
    /\ out' = Nothing
    /\ UNCHANGED <<counters, hasCPUBaseline, lastCPUTotal, lastCPUIdle>>

Next ==
    \/ \E files \in Files : Sample(files)
    \/ StatFails
    \/ \E c \in DOMAIN Levels : \E v \in Levels[c] : Count(c, v)
    \/ Elapse

Spec == Init /\ [][Next]_vars

-----------------------------------------------------------------------------
(* Properties *)

\* The ticks of some counters, as numbers that do not wrap.
Ticks(c, names) == FoldLeft(LAMBDA a, n : a + c[n], 0, names)
SinceSeen(names) == Ticks(counters, names) - Ticks(seen.counters, names)

\* The time since Sample read the counters last has a usage.
Measurable ==
    /\ seen.read
    /\ seen.window \in 1..MaxWindow
    /\ SinceSeen(Idle) >= 0 /\ SinceSeen(Busy) >= 0
    /\ SinceSeen(Idle) + SinceSeen(Busy) > 0

\* telemetry_linux.go: the baseline advances "immediately so transient downstream
\* collection failures do not extend sample window".  A report is about the time since
\* Sample read the counters last, and its usage is that of the machine in this time,
\* computed without overflow.  And after silence or failures of any kind one read is
\* enough: Sample is silent only where that time has no usage.
UsageOfWindow ==
    [][/\ out'.kind = "silent" => ~Measurable
       /\ out'.kind = "report" =>
            /\ Measurable
            /\ out'.window = seen.window
            /\ out'.cpu = (SinceSeen(Busy) * Scale) \div (SinceSeen(Busy) + SinceSeen(Idle))]_vars

Traffic(f, col) == FoldLeft(LAMBDA a, i : IF i.name = "lo" THEN a ELSE a + i[col], 0, f)

\* The other numbers of a report are those of the files, none of them cut off by the
\* width of a word (readRootFS, readProcNetDev, readProcMeminfo), and what the readers
\* accept the validator accepts: "local telemetry validation failed" loses no sample.
NumbersTrue ==
    /\ out.kind # "invalid"
    /\ out.kind = "report" =>
        LET fs == out.files.fs  mem == out.files.mem  net == out.files.net IN
        /\ out.fs = [total |-> fs.blocks * fs.bsize, used |-> (fs.blocks - fs.bfree) * fs.bsize,
                     avail |-> fs.bavail * fs.bsize]
        /\ out.mem.total = mem.total * KB /\ out.mem.used + mem.avail * KB = mem.total * KB
        /\ out.net = [rx |-> Traffic(net, "rx"), tx |-> Traffic(net, "tx")]
        /\ \A n \in {out.fs.total, out.mem.total, out.load, out.net.rx, out.net.tx, out.uptime} :
            n \in 0..MaxInt
=============================================================================
