------------------------------- MODULE Cache -------------------------------
(***************************************************************************)
(* CacheClass: the L1 instruction and data caches before a common L2.  The *)
(* caches keep no data: an access answers with the cycle in which the line *)
(* is there.  What an access leaves behind is the recency order of the     *)
(* sets, dirty bits, miss-handling registers (MHSRs) and the cycles at     *)
(* which the miss ports are free.                                          *)
(*                                                                         *)
(* A set is the sequence of its valid ways, the most recently used first:  *)
(* the lru counters of cache.h number the ways in this order.              *)
(***************************************************************************)
EXTENDS Integers, Sequences, FiniteSets, SequencesExt, FiniteSetsExt

CONSTANTS
  Lines,           (* addresses >> lineSize                                *)
  Sets, Assoc,     (* of each cache                                        *)
  HitLatency,
  MissLatency,     (* of L2: to memory                                     *)
  NumMHSR,
  NumPorts, PortLatency

L1s == {"ic", "dc"}
Caches == L1s \cup {"l2"}
None == -1

ASSUME CacheAssumption ==
  /\ Lines \subseteq Nat
  /\ \A parameter \in {Sets, Assoc, HitLatency, NumMHSR, NumPorts, PortLatency} :
       parameter \in [Caches -> Nat \ {0}]
  /\ MissLatency \in Nat

VARIABLES
  caches,          (* of each cache: sets, mhsr, missPortAvail as ports,   *)
                   (* and, for the properties, when each line last arrives *)
  cycle,
  rejected         (* L2 has had no MHSR for an access of an L1: the time  *)
                   (* it answers then, -1, is taken for a time, the run is *)
                   (* beyond the model and stops                           *)

vars == <<caches, cycle, rejected>>
-----------------------------------------------------------------------------
(* One cache: c is its name, s the state of all.                           *)

FreeMHSR == [busy |-> FALSE, resolved |-> 0, line |-> None]
SetOf(c, line) == line % Sets[c]
WaysFor(s, c, line) == s[c].sets[SetOf(c, line)]

Place(ways, line) == {k \in DOMAIN ways : ways[k].line = line}
Hits(s, c, line) == Place(WaysFor(s, c, line), line) # {}
PlaceOf(ways, line) == CHOOSE k \in Place(ways, line) : TRUE
WayOf(s, c, line) == WaysFor(s, c, line)[PlaceOf(WaysFor(s, c, line), line)]

\* The way goes, changed, to the front of its set.
ToFront(ways, way) == <<way>> \o RemoveAt(ways, PlaceOf(ways, way.line))
WithFront(s, c, way) == [s EXCEPT ![c].sets[SetOf(c, way.line)] = ToFront(@, way)]

\* FindFreeMHSR(): the first that is free or finished at cycle t; a finished
\* one is freed, and the lookup of its line makes that the most recent one.
\* mutant: a register is kept until its line is accessed again
UsableIfFree(s, c, t) == {i \in 1..NumMHSR[c] : ~s[c].mhsr[i].busy}
Usable(s, c, t) ==
  {i \in 1..NumMHSR[c] : ~s[c].mhsr[i].busy \/ s[c].mhsr[i].resolved < t}
FirstUsable(s, c, t) ==
  CHOOSE i \in Usable(s, c, t) : \A j \in Usable(s, c, t) : i <= j

\* mutant: the line goes on naming the register
FreedWayNot(way, i) == way
FreedWay(way, i) == IF way.mhsr = i THEN [way EXCEPT !.mhsr = None] ELSE way
Freed(s, c, i) ==
  LET m == s[c].mhsr[i]
      f == [s EXCEPT ![c].mhsr[i] = FreeMHSR]
  IN IF m.busy /\ Hits(s, c, m.line)
     THEN WithFront(f, c, FreedWay(WayOf(s, c, m.line), i)) ELSE f

\* FindNextPort(): the first of the soonest.
NextPort(s, c) ==
  LET avail == s[c].ports
      Soonest(i) == \A j \in DOMAIN avail : avail[i] <= avail[j]
  IN CHOOSE i \in DOMAIN avail : Soonest(i) /\ \A j \in 1..i-1 : ~Soonest(j)

\* At least a hit latency from t.
AfterHit(c, t, when) == IF when - t < HitLatency[c] THEN t + HitLatency[c] ELSE when

Answer(s, t, ok) == [s |-> s, time |-> t, ok |-> ok]

\* Access() of a line that is allocated; it may still be on its way.
AccessHit(s, c, t, line, isStore) ==
  LET way == [WayOf(s, c, line) EXCEPT !.dirty = @ \/ isStore]
      touched == WithFront(s, c, way)
  IN IF way.mhsr = None THEN Answer(touched, t + HitLatency[c], TRUE)
     ELSE IF s[c].mhsr[way.mhsr].resolved <= t
     THEN Answer([WithFront(s, c, [way EXCEPT !.mhsr = None])
                    EXCEPT ![c].mhsr[way.mhsr] = FreeMHSR], t + HitLatency[c], TRUE)
     ELSE Answer(touched, AfterHit(c, t, s[c].mhsr[way.mhsr].resolved) + HitLatency[c], TRUE)

\* The way that a new line replaces, as a set of at most one, and the others.
Victim(ways, c) == IF Len(ways) < Assoc[c] THEN {} ELSE {Last(ways)}
Kept(ways, c) == IF Len(ways) < Assoc[c] THEN ways ELSE Front(ways)

\* The fill waits for a free port, for a hit latency, and for the fill of the
\* line it replaces.
FillStart(s, c, t, ways, port) ==
  LET loading == {v \in Victim(ways, c) : v.mhsr # None}
  IN Max({AfterHit(c, t, Max({s[c].ports[port], t}))} \cup {s[c].mhsr[v.mhsr].resolved : v \in loading})

\* A dirty victim is written back; addr is the line that comes, not the one
\* that goes.
WriteBack(s, c, t, ways, line, Below(_, _, _, _)) ==
  IF \E v \in Victim(ways, c) : v.dirty THEN Below(s, t, line, TRUE) ELSE Answer(s, t, TRUE)

\* Access() of a line that is not: an MHSR, a port, the victim's own fill,
\* its write-back, and the fill from the next level, in this order.
AccessMiss(s, c, t, line, isStore, Below(_, _, _, _)) ==
  LET i == FirstUsable(s, c, t)
      f == Freed(s, c, i)
      port == NextPort(f, c)
      ways == WaysFor(f, c, line)
      new == [line |-> line, mhsr |-> i, dirty |-> isStore]
      placed == [f EXCEPT ![c].sets[SetOf(c, line)] = <<new>> \o Kept(ways, c)]
      back == WriteBack(placed, c, FillStart(f, c, t, ways, port), ways, line, Below)
      fill == Below([back.s EXCEPT ![c].ports[port] = back.time + PortLatency[c]],
                    back.time, line, FALSE)
      done == [fill.s EXCEPT ![c].mhsr[i] = [busy |-> TRUE, resolved |-> fill.time, line |-> line],
                             ![c].arrives[line] = fill.time]
  IN Answer(done, fill.time + HitLatency[c], back.ok /\ fill.ok)

\* Access().  It is refused, with -1 and nothing changed, when no MHSR is left.
Refused(s, c, t, line) == ~Hits(s, c, line) /\ Usable(s, c, t) = {}
Access(s, c, t, line, isStore, Below(_, _, _, _)) ==
  IF Hits(s, c, line) THEN AccessHit(s, c, t, line, isStore)
  ELSE AccessMiss(s, c, t, line, isStore, Below)

\* Below an L1 there is L2, and below that, memory.
Memory(s, t, line, isStore) == Answer(s, t + MissLatency, TRUE)
L2(s, t, line, isStore) ==
  IF Refused(s, "l2", t, line) THEN Answer(s, t, FALSE)
  ELSE Access(s, "l2", t, line, isStore, Memory)
-----------------------------------------------------------------------------
Init ==
  /\ caches = [c \in Caches |->
                 [sets |-> [i \in 0..Sets[c]-1 |-> <<>>],
                  mhsr |-> [i \in 1..NumMHSR[c] |-> FreeMHSR],
                  ports |-> [i \in 1..NumPorts[c] |-> 0],
                  arrives |-> [l \in Lines |-> 0]]]
  /\ cycle = 0
  /\ rejected = FALSE

L1Access(c, line, isStore) ==
  /\ ~rejected
  /\ ~Refused(caches, c, cycle, line)
  /\ LET answer == Access(caches, c, cycle, line, isStore, L2)
     IN caches' = answer.s /\ rejected' = ~answer.ok
  /\ UNCHANGED cycle

\* lsu::load_addr(), load_unstall() and store_addr().
DCLoad == \E line \in Lines : L1Access("dc", line, FALSE)
DCStore == \E line \in Lines : L1Access("dc", line, TRUE)
\* fetch().
ICFetch == \E line \in Lines : L1Access("ic", line, FALSE)

Tick == ~rejected /\ cycle' = cycle + 1 /\ UNCHANGED <<caches, rejected>>

Next == DCLoad \/ DCStore \/ ICFetch \/ Tick
Spec == Init /\ [][Next]_vars
-----------------------------------------------------------------------------
WaysOf(c) == UNION {{<<x, k>> : k \in DOMAIN caches[c].sets[x]} : x \in DOMAIN caches[c].sets}
Way(c, p) == caches[c].sets[p[1]][p[2]]

\* Types; a set has no more lines than ways, only its own, and none twice.
TypeOK ==
  /\ cycle \in Nat /\ rejected \in BOOLEAN
  /\ \A c \in Caches :
       /\ \A p \in WaysOf(c) :
            /\ Way(c, p).line \in Lines /\ SetOf(c, Way(c, p).line) = p[1]
            /\ Way(c, p).mhsr \in {None} \cup 1..NumMHSR[c]
            /\ Way(c, p).dirty \in BOOLEAN
       /\ \A p, q \in WaysOf(c) : Way(c, p).line = Way(c, q).line => p = q
       /\ \A x \in DOMAIN caches[c].sets : Len(caches[c].sets[x]) <= Assoc[c]
       /\ \A i \in 1..NumMHSR[c] : caches[c].mhsr[i].resolved \in Nat
       /\ caches[c].ports \in [1..NumPorts[c] -> Nat]

\* Types; a line that names an MHSR is the line that MHSR brings in, although lines
\* come and go and registers are handed on while fills are under way; an L1
\* line that names none has arrived.  (L2 is asked about future cycles, and
\* forgets a register as soon as one of them is past the fill.)
MHSRsExact ==
  /\ TypeOK
  /\ \A c \in Caches : \A p \in WaysOf(c) :
      LET way == Way(c, p)
      IN IF way.mhsr = None THEN c \in L1s => caches[c].arrives[way.line] <= cycle
         ELSE caches[c].mhsr[way.mhsr] =
                [busy |-> TRUE, resolved |-> caches[c].arrives[way.line], line |-> way.line]

\* The comment in Access(), "Cannot miss in MHSR in the next level if the next
\* level has as many or more MHSRs as this level": an L1 with a register for a
\* miss finds one in L2, where registers are freed at other times.
NextLevelAccepts == ~rejected
=============================================================================
