------------------------------ MODULE MC_Search ------------------------------
(* The searches of the chess engine on games of three plies: the parallel    *)
(* searches of the host (job "cpu"), one call of device_search (job          *)
(* "device"), and a search of the host that offloads (job "host"), for which *)
(* module Offload takes what the device answers as exact.                    *)
EXTENDS CpuSearch, DeviceSearch, Offload

Open(e, kids) == [kind |-> "open", eval |-> e, next |-> kids]
Leaf(e)       == Open(e, <<>>)
End(k)        == [kind |-> k, eval |-> 0, next |-> <<>>]

(* Games of the host's searches: mates, draws, ties and every order of good  *)
(* and bad replies below one to three root moves.                            *)
Thirds  == {Leaf(-1), Leaf(1), End("mate")}
Seconds == {Open(0, <<Leaf(-1), Leaf(e)>>) : e \in {-1, 1}} \cup {Open(0, <<Leaf(1), Leaf(-1)>>)}
           \cup {Open(0, <<a>>) : a \in Thirds} \cup {End("drawn"), End("mate")}
Varied  == {Open(0, <<Open(0, <<Leaf(1), Leaf(-1)>>), Open(0, <<Leaf(1)>>)>>),
            Open(0, <<End("drawn"), Open(0, <<Leaf(-1), Leaf(1)>>)>>)}
Some    == Varied \cup {End("mate")}
AtOnce  == {End("mate"), End("stalemate"), [Open(0, <<End("mate")>>) EXCEPT !.kind = "drawn"]}

Firsts(seconds) ==
    {Open(0, <<x, y>>) : x, y \in seconds} \cup {End("stalemate"), End("mate")}
GamesOf(firsts, others) ==
    {Open(0, <<x, y>>) : x \in firsts, y \in others}
    \cup {Open(0, <<x, y, z>>) : x, y, z \in others} \cup AtOnce

MCGames == GamesOf(Firsts(Seconds), Some) \cup {Open(0, <<x>>) : x \in Some}

(* Fewer of them are offloaded.                                              *)
Replies   == {Open(0, <<Leaf(-1), Leaf(1)>>), Open(0, <<Leaf(1)>>), Open(0, <<Leaf(-1)>>),
              End("drawn"), End("mate")}
Offloaded == GamesOf(Firsts(Replies), Varied)

(* Positions whose trees device_search is called on: a pair of second plies  *)
(* below one move, and another move before or after.                         *)
Lasts == << Open(0, <<Leaf(-1), Leaf(1)>>), Open(0, <<Leaf(1), Leaf(-1)>>),
           Open(0, <<Leaf(0), Leaf(1)>>), Open(0, <<Leaf(0), Leaf(0)>>),
           Open(0, <<Leaf(1)>>), Open(0, <<Leaf(-1)>>),
           Open(0, <<End("stalemate"), Leaf(-1)>>), End("mate"), End("drawn") >>
Other == << Open(0, <<Open(0, <<Leaf(1), Leaf(-1)>>), Open(0, <<Leaf(1)>>)>>),
            Open(0, <<Open(0, <<Leaf(-1)>>), End("mate"), Open(0, <<Leaf(0)>>)>>),
            End("mate") >>

Paired(k) ==
    LET Pick(seq, by) == seq[1 + ((k \div by) % Len(seq))]
        x == Open(0, <<Pick(Lasts, 1), Pick(Lasts, Len(Lasts))>>)
        y == Pick(Other, Len(Lasts) * Len(Lasts))
    IN  Open(0, IF Pick(<<1, 2>>, Len(Lasts) * Len(Lasts) * Len(Other)) = 1
                  THEN <<x, y>> ELSE <<y, x>>)

Pairs == 1 .. (Len(Lasts) * Len(Lasts) * Len(Other) * 2)

(* All of them, and whatever they lead to.                                   *)
Below(S) == UNION {ToSet(p.next) : p \in S}
MCPosition == LET all == MCGames \cup {Paired(k) : k \in Pairs}
                  first == Below(all)  second == Below(first)
              IN  all \cup first \cup second \cup Below(second)

MCTrees == {ChunkTree(Paired(k), Depth, 0, 100).nodes : k \in Pairs}
AnyTree == CHOOSE t \in Trees : TRUE

-----------------------------------------------------------------------------
VARIABLE job

jobVars == <<vars, deviceVars, hostVars, job>>

(* What is not searched stands at its start.                                 *)
IdleCpu    == position = End("mate") /\ split = 1 /\ seeded = FALSE /\ Init
IdleDevice == tree = AnyTree /\ root = 0 /\ DeviceInit
IdleHost   == /\ game = End("mate") /\ device = TRUE
            /\ backend = [chunked |-> FALSE, profile |-> FALSE, required |-> FALSE, chunk |-> 1]
            /\ HostInit

JobInit ==
    \/ job = "cpu"    /\ IdleDevice /\ IdleHost /\ Init
    \/ job = "device" /\ IdleCpu /\ IdleHost /\ DeviceInit
    \/ job = "host"   /\ IdleCpu /\ IdleDevice /\ game \in Offloaded /\ HostInit

JobNext ==
    /\ UNCHANGED job
    /\ \/ job = "cpu"    /\ Next       /\ UNCHANGED <<deviceVars, hostVars>>
       \/ job = "device" /\ DeviceNext /\ UNCHANGED <<vars, hostVars>>
       \/ job = "host"   /\ HostNext   /\ UNCHANGED <<vars, deviceVars>>

(* The scheduler of the ranks and threads is fair, as in CpuSearch.          *)
JobSpec == JobInit /\ [][JobNext]_jobVars /\ WF_jobVars(job = "cpu" /\ JobNext)

(* No rank of a parallel search waits for ever in a collective operation.    *)
SearchTerminates == (job = "cpu") => Terminates
=============================================================================
