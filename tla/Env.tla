-------------------------------- MODULE Env ---------------------------------
(***************************************************************************)
(* The tuning parameters read from the environment when the library is     *)
(* loaded (env.c).  The arithmetic is that of a C int, whose width is a    *)
(* parameter here, as are the limits that only have to fit in it.          *)
(***************************************************************************)
EXTENDS Integers, Bitwise

CONSTANTS Width,              \* bits in an int
          Kilo,               \* the 1024 a request is multiplied by
          MinPtrs, MaxPtrs,   \* MIN_PTRS_PER_THREAD, MAX_PTRS_PER_THREAD
          DefaultPtrs,        \* 32, the number of Kilo taken by default
          Unset               \* the value of a variable that is not set

VARIABLES
  environ,                        \* what the variables are set to: they are
                                  \* independent, one value serves for all
  g_forkscan_ptrs_per_thread,
  g_forkscan_report_statistics,
  g_forkscan_throttling_queue,
  g_forkscan_max_children

envVars == <<environ, g_forkscan_ptrs_per_thread, g_forkscan_report_statistics,
             g_forkscan_throttling_queue, g_forkscan_max_children>>

PowersOfTwo == {2^k : k \in 0 .. Width - 2}

ASSUME EnvAssumption ==
  /\ Width \in Nat \ {0}
  /\ MinPtrs \in PowersOfTwo /\ MaxPtrs \in PowersOfTwo /\ MinPtrs <= MaxPtrs

IntMin == -(2^(Width - 1))
IntMax == 2^(Width - 1) - 1
CInt   == IntMin .. IntMax

\* The low bits of n as an unsigned and as a signed number.
Bits(n) == n % 2^Width
Wrap(n) == IF Bits(n) > IntMax THEN Bits(n) - 2^Width ELSE Bits(n)

\* get_int: atoi is given strings that denote an int.
GetInt(val, default_val) == IF val = Unset THEN default_val ELSE val

\* n |= n >> shift.  (\div rounds down, as the shift of a negative int does.)
OrShift(n, shift) == Wrap(Bits(n) | Bits(n \div 2^shift))

\* n |= n >> 1, n |= n >> 2, n |= n >> 4, ...: every bit below the highest one.
Smear(n) ==
  LET after[k \in 0 .. Width] ==
        IF k = 0 THEN n
        ELSE IF 2^(k - 1) < Width THEN OrShift(after[k - 1], 2^(k - 1))
        ELSE after[k - 1]
  IN  after[Width]

Clamp(n, lo, hi) == IF n < lo THEN lo ELSE IF n > hi THEN hi ELSE n

\* Seeded fault: exact powers of two are rounded up too.
RoundWithoutDecrement(val) ==
  LET ones == Smear(Wrap(GetInt(val, DefaultPtrs) * Kilo))
  IN  {Clamp(n, MinPtrs, MaxPtrs) : n \in {ones + 1, Wrap(ones + 1)}}

\* g_forkscan_ptrs_per_thread.  The last increment of a huge request overflows,
\* which C leaves open: a compiler may bound the number before it wraps or
\* after.  The multiplication and the decrement wrap.
PtrsPerThread(val) ==
  LET ones == Smear(Wrap(Wrap(GetInt(val, DefaultPtrs) * Kilo) - 1))
  IN  {Clamp(n, MinPtrs, MaxPtrs) : n \in {ones + 1, Wrap(ones + 1)}}

\* env_init, which runs before main and before any thread is created.
EnvInit ==
  /\ environ \in CInt \cup {Unset}
  /\ g_forkscan_ptrs_per_thread \in PtrsPerThread(environ)
  /\ g_forkscan_report_statistics = (GetInt(environ, 0) # 0)
  /\ g_forkscan_throttling_queue = Clamp(GetInt(environ, 16), 1, 32)
  /\ g_forkscan_max_children = Clamp(GetInt(environ, 16), 1, 16)

\* Whatever is asked for, every thread's queue gets a capacity whose
\* predecessor is a mask (INDEXIFY in queue.c), within the limits; a request
\* that fits gets the smallest such capacity that is enough for it; and at
\* least one collection may wait and one child scans.
EnvGivesMasks ==
  LET wanted == GetInt(environ, DefaultPtrs) * Kilo
      masks  == {p \in PowersOfTwo : p >= MinPtrs /\ p <= MaxPtrs}
      enough == {p \in masks : p >= wanted}
  IN  /\ g_forkscan_ptrs_per_thread \in masks
      /\ wanted \in 0 .. MaxPtrs =>
           /\ g_forkscan_ptrs_per_thread \in enough
           /\ \A p \in enough : g_forkscan_ptrs_per_thread <= p
      /\ g_forkscan_throttling_queue >= 1
      /\ g_forkscan_max_children >= 1
=============================================================================
