-------------------------- MODULE MCTelemetrySample --------------------------
(***************************************************************************)
(* Words of four bits: sums and products wrap at 16, an int ends at 7.     *)
(***************************************************************************)
EXTENDS TelemetrySample

MCLevels == [user |-> {0, 3, 9}, nice |-> {0}, system |-> {0}, irq |-> {0}, softirq |-> {0},
             steal |-> {0, 14}, idle |-> {0, 2, 8}, iowait |-> {0, 1}]

Good == [mem |-> [total |-> 3, avail |-> 1], load |-> 1, fs |-> [blocks |-> 3, bfree |-> 2,
         bavail |-> 1, bsize |-> 2], net |-> <<>>, uptime |-> 7]

MemFiles == [total : {Bad, 0, 1, 3, 4}, avail : {Bad, 0, 1, 3, 4}]
FSFiles == [blocks : {0, 1, 3, 9}, bfree : {0, 1, 9}, bavail : {0, 1, 4}, bsize : {0, 1, 4}]
Interface(n) == [name : {n}, rx : {3, 5}, tx : {0, 4}]
NetFiles == {<<[name |-> "lo", rx |-> 9, tx |-> 9], e>> : e \in Interface("eth0")}
            \cup (Interface("eth0") \X Interface("eth1"))
            \cup {<<[name |-> "eth0", rx |-> n, tx |-> 0]>> : n \in {Bad, 9}}

\* One file after the other takes its edge cases.
MCFiles ==
    {[Good EXCEPT !.mem = f] : f \in MemFiles} \cup {[Good EXCEPT !.fs = f] : f \in FSFiles}
    \cup {[Good EXCEPT !.net = f] : f \in NetFiles}
    \cup {[Good EXCEPT !.load = f] : f \in {Bad, 0, 3, 4}}
    \cup {[Good EXCEPT !.uptime = f] : f \in {Bad, 0, 8}}
=============================================================================
