----------------------------- MODULE MCRenamer -----------------------------
EXTENDS Renamer

(* Registers are interchangeable, and every register is in the committed   *)
(* map or in some slot of the Free List ring: place says where, with the   *)
(* slots counted from start and values from zero.  Two states that differ  *)
(* in the names of registers, in what entries outside the Active List      *)
(* hold, in checkpoints of no branch, or in sources that have been read    *)
(* (nothing reads these again) are one state.  A state in which a register *)
(* is in no place, or an index out of range, is one of its own.            *)
Quotient(start, zero) ==
  LET order == [k \in 1 .. NumPhys |->
                 IF k <= NumLog THEN AMT[k - 1] ELSE free.list[(start + k - 1 - NumLog) % ListSize]]
      place == [p \in Phys |-> CHOOSE k \in 1 .. NumPhys : order[k] = p]
      slot(s) == (s + ListSize - start) % ListSize
      val(v) == (v + NumValues - zero) % NumValues
      dest(i) == IF HasDest(i.insn) THEN place[i.pdst] ELSE 0
      waits(s) == \E x \in backend : x.al = s /\ x.stage = "queued"
  IN IF TypeOK /\ free.head # -1 /\ \A p \in Phys : \E k \in 1 .. NumPhys : order[k] = p
     THEN <<[l \in Log |-> place[RMT[l]]], slot(free.head), slot(free.tail), alHead, alTail, GBM,
            [k \in 1 .. NumPhys |-> <<ready[order[k]], val(value[order[k]])>>], phase, rename2,
            [k \in DOMAIN dispatch |->
              [dispatch[k] EXCEPT !.psrc = place[@], !.pdst = dest(dispatch[k])]],
            {[x EXCEPT !.psrc = IF x.stage = "done" THEN 0 ELSE place[@]] : x \in backend},
            [s \in InFlight |->
              [al[s] EXCEPT !.pdst = dest(al[s]),
                            !.a_value = IF IsSystem(al[s].insn) /\ ~waits(s) THEN val(@) ELSE 0]],
            [b \in BranchID \cap GBM |->
              [chk[b] EXCEPT !.MT = [l \in Log |-> place[@[l]]], !.head = slot(@)]]>>
     ELSE <<vars>>

View == Quotient(0, 0)
(* A list that is never empty only goes round, and Op commutes with the    *)
(* addition of a number to every value: where the list's indices are not   *)
(* in question, two states are one, too, that differ by a turn of the ring *)
(* or by what every value is off.                                          *)
TurnedView == Quotient(free.head, value[AMT[0]])
=============================================================================
