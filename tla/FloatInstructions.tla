------------------------- MODULE FloatInstructions -------------------------
(***************************************************************************)
(* The floating-point instructions of the functional simulator (the files  *)
(* f*.h of riscv-base/insns).  The context has, besides, FRS1, FRS2, FRS3, *)
(* the rounding mode rm of the instruction, frm and fflags, and sr.EF; frd *)
(* is what is handed to the floating-point registers.  A register has the  *)
(* bits of a double: a float is in the lower ones.                         *)
(***************************************************************************)
EXTENDS Instructions, SoftFloat

ASSUME RegisterAssumption == Width(D) <= X

RM(c) == IF c.rm = 7 THEN c.frm ELSE c.rm
require_rm(c, done) == IF RM(c) > 4 THEN Throw(c, "illegal_instruction") ELSE done
set_fp_exceptions(c, flags) == [c EXCEPT !.fflags = @ \cup flags]
WRITE_FRD(c, w) == [c EXCEPT !.frd = <<w>>]

\* An operation that rounds, to either register file.
Rounded(c, r) == require_fp(c, require_rm(c, set_fp_exceptions(WRITE_FRD(c, r.ui), r.flags)))
RoundedInteger(c, r) == require_fp(c, require_rm(c, set_fp_exceptions(WRITE_RD(c, r.ui), r.flags)))
Comparison(c, r) == require_fp(c, set_fp_exceptions(WRITE_RD(c, r.ui), r.flags))

\* The lower half of a register, and the number with the other sign.
float(w) == w % 2^Width(S)
SignBit(f) == 2^(Width(f) - 1)
Flip(f, w) == w ^^ SignBit(f)
One(f) == packToUI(f, 0, Bias(f), 0)
-----------------------------------------------------------------------------
rv_fadd_s(c) == Rounded(c, f32_mulAdd(float(c.FRS1), One(S), float(c.FRS2), RM(c)))
rv_fadd_d(c) == Rounded(c, f64_mulAdd(c.FRS1, One(D), c.FRS2, RM(c)))
rv_fsub_s(c) == Rounded(c, f32_mulAdd(float(c.FRS1), One(S), Flip(S, float(c.FRS2)), RM(c)))
rv_fsub_d(c) == Rounded(c, f64_mulAdd(c.FRS1, One(D), Flip(D, c.FRS2), RM(c)))

\* The sum of a product and the zero of its sign.
ZeroOf(f, a, b) == (a ^^ b) & SignBit(f)
rv_fmul_s(c) ==
  Rounded(c, f32_mulAdd(float(c.FRS1), float(c.FRS2), ZeroOf(S, float(c.FRS1), float(c.FRS2)), RM(c)))
rv_fmul_d(c) == Rounded(c, f64_mulAdd(c.FRS1, c.FRS2, ZeroOf(D, c.FRS1, c.FRS2), RM(c)))
rv_fdiv_s(c) == Rounded(c, f32_div(float(c.FRS1), float(c.FRS2), RM(c)))
rv_fdiv_d(c) == Rounded(c, f64_div(c.FRS1, c.FRS2, RM(c)))
rv_fsqrt_s(c) == Rounded(c, f32_sqrt(float(c.FRS1), RM(c)))
rv_fsqrt_d(c) == Rounded(c, f64_sqrt(c.FRS1, RM(c)))

rv_fmadd_s(c) == Rounded(c, f32_mulAdd(float(c.FRS1), float(c.FRS2), float(c.FRS3), RM(c)))
rv_fmadd_d(c) == Rounded(c, f64_mulAdd(c.FRS1, c.FRS2, c.FRS3, RM(c)))
rv_fmsub_s(c) == Rounded(c, f32_mulAdd(float(c.FRS1), float(c.FRS2), Flip(S, float(c.FRS3)), RM(c)))
rv_fmsub_d(c) == Rounded(c, f64_mulAdd(c.FRS1, c.FRS2, Flip(D, c.FRS3), RM(c)))
rv_fnmadd_s(c) ==
  Rounded(c, f32_mulAdd(Flip(S, float(c.FRS1)), float(c.FRS2), Flip(S, float(c.FRS3)), RM(c)))
rv_fnmadd_d(c) == Rounded(c, f64_mulAdd(Flip(D, c.FRS1), c.FRS2, Flip(D, c.FRS3), RM(c)))
rv_fnmsub_s(c) == Rounded(c, f32_mulAdd(Flip(S, float(c.FRS1)), float(c.FRS2), float(c.FRS3), RM(c)))
rv_fnmsub_d(c) == Rounded(c, f64_mulAdd(Flip(D, c.FRS1), c.FRS2, c.FRS3, RM(c)))

\* A NaN as the second operand is not looked at any further.
Chosen(c, f, b, compared) ==
  require_fp(c, IF isNaN(f, b) THEN WRITE_FRD(c, c.FRS1)
                ELSE set_fp_exceptions(WRITE_FRD(c, IF compared.ui = 1 THEN c.FRS1 ELSE c.FRS2),
                                       compared.flags))
rv_fmin_s(c) == Chosen(c, S, float(c.FRS2), f32_lt_quiet(float(c.FRS1), float(c.FRS2)))
rv_fmin_d(c) == Chosen(c, D, c.FRS2, f64_lt_quiet(c.FRS1, c.FRS2))
rv_fmax_s(c) == Chosen(c, S, float(c.FRS2), f32_le_quiet(float(c.FRS2), float(c.FRS1)))
rv_fmax_d(c) == Chosen(c, D, c.FRS2, f64_le_quiet(c.FRS2, c.FRS1))
rv_feq_s(c) == Comparison(c, f32_eq(float(c.FRS1), float(c.FRS2)))
rv_feq_d(c) == Comparison(c, f64_eq(c.FRS1, c.FRS2))
rv_flt_s(c) == Comparison(c, f32_lt(float(c.FRS1), float(c.FRS2)))
rv_flt_d(c) == Comparison(c, f64_lt(c.FRS1, c.FRS2))
rv_fle_s(c) == Comparison(c, f32_le(float(c.FRS1), float(c.FRS2)))
rv_fle_d(c) == Comparison(c, f64_le(c.FRS1, c.FRS2))
rv_fclass_s(c) == require_fp(c, WRITE_RD(c, f32_classify(float(c.FRS1))))
rv_fclass_d(c) == require_fp(c, WRITE_RD(c, f64_classify(c.FRS1)))

\* The sign of another: FSGNJX_S alone keeps the upper half of the register.
WithSign(f, a, sgn) == (a % SignBit(f)) + sgn * SignBit(f)
rv_fsgnj_s(c) == require_fp(c, WRITE_FRD(c, WithSign(S, c.FRS1, sign(S, c.FRS2))))
rv_fsgnj_d(c) == require_fp(c, WRITE_FRD(c, WithSign(D, c.FRS1, sign(D, c.FRS2))))
rv_fsgnjn_s(c) == require_fp(c, WRITE_FRD(c, WithSign(S, c.FRS1, 1 - sign(S, c.FRS2))))
rv_fsgnjn_d(c) == require_fp(c, WRITE_FRD(c, WithSign(D, c.FRS1, 1 - sign(D, c.FRS2))))
rv_fsgnjx_s(c) == require_fp(c, WRITE_FRD(c, c.FRS1 ^^ (c.FRS2 & SignBit(S))))
rv_fsgnjx_d(c) == require_fp(c, WRITE_FRD(c, c.FRS1 ^^ (c.FRS2 & SignBit(D))))
-----------------------------------------------------------------------------
(* To and from integers, and between the formats.                          *)

rv_fcvt_w_s(c) == LET r == f32_to_i32(float(c.FRS1), RM(c)) IN RoundedInteger(c, [r EXCEPT !.ui = sext32(@)])
rv_fcvt_w_d(c) == LET r == f64_to_i32(c.FRS1, RM(c)) IN RoundedInteger(c, [r EXCEPT !.ui = sext32(@)])
rv_fcvt_wu_s(c) == LET r == f32_to_ui32(float(c.FRS1), RM(c)) IN RoundedInteger(c, [r EXCEPT !.ui = sext32(@)])
rv_fcvt_wu_d(c) == LET r == f64_to_ui32(c.FRS1, RM(c)) IN RoundedInteger(c, [r EXCEPT !.ui = sext32(@)])
rv_fcvt_l_s(c) == require_xpr64(c, RoundedInteger(c, f32_to_i64(float(c.FRS1), RM(c))))
rv_fcvt_l_d(c) == require_xpr64(c, RoundedInteger(c, f64_to_i64(c.FRS1, RM(c))))
rv_fcvt_lu_s(c) == require_xpr64(c, RoundedInteger(c, f32_to_ui64(float(c.FRS1), RM(c))))
rv_fcvt_lu_d(c) == require_xpr64(c, RoundedInteger(c, f64_to_ui64(c.FRS1, RM(c))))
rv_fcvt_s_w(c) == Rounded(c, i32_to_f32(SignedLow(c.RS1), RM(c)))
rv_fcvt_d_w(c) == Rounded(c, i32_to_f64(SignedLow(c.RS1), RM(c)))
rv_fcvt_s_wu(c) == Rounded(c, ui32_to_f32(Low(c.RS1), RM(c)))
rv_fcvt_d_wu(c) == Rounded(c, ui32_to_f64(Low(c.RS1), RM(c)))
rv_fcvt_s_l(c) == require_xpr64(c, Rounded(c, i64_to_f32(Signed(c.RS1), RM(c))))
rv_fcvt_d_l(c) == require_xpr64(c, Rounded(c, i64_to_f64(Signed(c.RS1), RM(c))))
rv_fcvt_s_lu(c) == require_xpr64(c, Rounded(c, ui64_to_f32(c.RS1, RM(c))))
rv_fcvt_d_lu(c) == require_xpr64(c, Rounded(c, ui64_to_f64(c.RS1, RM(c))))
rv_fcvt_s_d(c) == Rounded(c, f64_to_f32(c.FRS1, RM(c)))
rv_fcvt_d_s(c) == Rounded(c, f32_to_f64(float(c.FRS1)))

rv_fmv_x_s(c) == require_fp(c, WRITE_RD(c, SignExtend(c.FRS1, Width(S))))
rv_fmv_x_d(c) == require_xpr64(c, require_fp(c, WRITE_RD(c, c.FRS1)))
rv_fmv_s_x(c) == require_fp(c, WRITE_FRD(c, c.RS1))
rv_fmv_d_x(c) == require_xpr64(c, require_fp(c, WRITE_FRD(c, c.RS1)))

\* A float is sign-extended on its way from memory.
LoadFloat(c, n) ==
  require_fp(c, Load(c, Address(c), n, WRITE_FRD(c, load_int(c, Address(c), n))))
StoreFloat(c, n) == require_fp(c, store(c, Address(c), n, c.FRS2))
rv_flw(c) == LoadFloat(c, 4)
rv_fld(c) == LoadFloat(c, 8)
rv_fsw(c) == StoreFloat(c, 4)
rv_fsd(c) == StoreFloat(c, 8)
-----------------------------------------------------------------------------
execute_float(o, c) ==
  CASE o = "FADD_S" -> rv_fadd_s(c) [] o = "FADD_D" -> rv_fadd_d(c)
    [] o = "FSUB_S" -> rv_fsub_s(c) [] o = "FSUB_D" -> rv_fsub_d(c)
    [] o = "FMUL_S" -> rv_fmul_s(c) [] o = "FMUL_D" -> rv_fmul_d(c)
    [] o = "FDIV_S" -> rv_fdiv_s(c) [] o = "FDIV_D" -> rv_fdiv_d(c)
    [] o = "FSQRT_S" -> rv_fsqrt_s(c) [] o = "FSQRT_D" -> rv_fsqrt_d(c)
    [] o = "FMADD_S" -> rv_fmadd_s(c) [] o = "FMADD_D" -> rv_fmadd_d(c)
    [] o = "FMSUB_S" -> rv_fmsub_s(c) [] o = "FMSUB_D" -> rv_fmsub_d(c)
    [] o = "FNMADD_S" -> rv_fnmadd_s(c) [] o = "FNMADD_D" -> rv_fnmadd_d(c)
    [] o = "FNMSUB_S" -> rv_fnmsub_s(c) [] o = "FNMSUB_D" -> rv_fnmsub_d(c)
    [] o = "FMIN_S" -> rv_fmin_s(c) [] o = "FMIN_D" -> rv_fmin_d(c)
    [] o = "FMAX_S" -> rv_fmax_s(c) [] o = "FMAX_D" -> rv_fmax_d(c)
    [] o = "FEQ_S" -> rv_feq_s(c) [] o = "FEQ_D" -> rv_feq_d(c)
    [] o = "FLT_S" -> rv_flt_s(c) [] o = "FLT_D" -> rv_flt_d(c)
    [] o = "FLE_S" -> rv_fle_s(c) [] o = "FLE_D" -> rv_fle_d(c)
    [] o = "FCLASS_S" -> rv_fclass_s(c) [] o = "FCLASS_D" -> rv_fclass_d(c)
    [] o = "FSGNJ_S" -> rv_fsgnj_s(c) [] o = "FSGNJ_D" -> rv_fsgnj_d(c)
    [] o = "FSGNJN_S" -> rv_fsgnjn_s(c) [] o = "FSGNJN_D" -> rv_fsgnjn_d(c)
    [] o = "FSGNJX_S" -> rv_fsgnjx_s(c) [] o = "FSGNJX_D" -> rv_fsgnjx_d(c)
    [] o = "FCVT_W_S" -> rv_fcvt_w_s(c) [] o = "FCVT_W_D" -> rv_fcvt_w_d(c)
    [] o = "FCVT_WU_S" -> rv_fcvt_wu_s(c) [] o = "FCVT_WU_D" -> rv_fcvt_wu_d(c)
    [] o = "FCVT_L_S" -> rv_fcvt_l_s(c) [] o = "FCVT_L_D" -> rv_fcvt_l_d(c)
    [] o = "FCVT_LU_S" -> rv_fcvt_lu_s(c) [] o = "FCVT_LU_D" -> rv_fcvt_lu_d(c)
    [] o = "FCVT_S_W" -> rv_fcvt_s_w(c) [] o = "FCVT_D_W" -> rv_fcvt_d_w(c)
    [] o = "FCVT_S_WU" -> rv_fcvt_s_wu(c) [] o = "FCVT_D_WU" -> rv_fcvt_d_wu(c)
    [] o = "FCVT_S_L" -> rv_fcvt_s_l(c) [] o = "FCVT_D_L" -> rv_fcvt_d_l(c)
    [] o = "FCVT_S_LU" -> rv_fcvt_s_lu(c) [] o = "FCVT_D_LU" -> rv_fcvt_d_lu(c)
    [] o = "FCVT_S_D" -> rv_fcvt_s_d(c) [] o = "FCVT_D_S" -> rv_fcvt_d_s(c)
    [] o = "FMV_X_S" -> rv_fmv_x_s(c) [] o = "FMV_X_D" -> rv_fmv_x_d(c)
    [] o = "FMV_S_X" -> rv_fmv_s_x(c) [] o = "FMV_D_X" -> rv_fmv_d_x(c)
    [] o = "FLW" -> rv_flw(c) [] o = "FLD" -> rv_fld(c)
    [] o = "FSW" -> rv_fsw(c) [] o = "FSD" -> rv_fsd(c)

=============================================================================
