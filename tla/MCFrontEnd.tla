----------------------------- MODULE MCFrontEnd -----------------------------
(* Instances of FrontEnd for TLC.                                          *)
EXTENDS FrontEnd

ProgramOf(s) == [p \in 0..Len(s)-1 |-> s[p + 1]]

\* A branch, a load that traps to the handler at 0, and a CSR access.
Loop == ProgramOf(<<"branch", "load", "alu", "csr">>)

\* What stops fetch: the return of the handler, the end of the mapped pages,
\* an AMO; and an indirect jump.
Stops == ProgramOf(<<"sret", "fault", "amo", "jalr">>)
Calls == ProgramOf(<<"csr", "syscall", "amo", "jal">>)

All == {Loop, Stops, Calls}
MCTarget == [p \in 0..3 |-> IF p = 0 THEN 2 ELSE 0]

\* The rings from their heads: where in its ring an entry lies does not matter as
\* long as each is where it should be (a state in which one is not has a view of
\* its own, so that no violation hides behind a state seen before).
FromHead(buf, head, n, size, step) == [k \in 1..n |-> buf[(head + step * (k - 1)) % size]]
Relative(insn) ==
  [insn EXCEPT !.db_index = IF insn.good THEN (@ + DebugSize - db.head) % DebugSize ELSE @]
RingView ==
  <<code, pc, stalls, fetching, Len(decode), fq.length, Len(rename2),
    [k \in DOMAIN window |-> [window[k] EXCEPT !.index = 0]],
    [k \in 1..pay.length \div 2 |->
       Relative(pay.buf[(pay.head + 2 * (k - 1)) % PaySize])],
    FromHead(db.buf, db.head, db.length, DebugSize, 1), isaPC, Booting,
    PayExact, fq.tail = FQSlot(fq.length + 1)>>
=============================================================================
