----------------------------- MODULE CellConfig -----------------------------
(***************************************************************************)
(* The cell configurations that rrm_management accepts for a restart:      *)
(* verify_cell_config_for_restart() and the table of band_check, with the  *)
(* widths of their integers.  A frequency in Hz does not fit TLC's         *)
(* integers: it is a pair of multiples of 100 kHz and a rest in Hz.        *)
(***************************************************************************)
EXTENDS Integers, Sequences

\* eutra_operating_bands: number, uplink and downlink range and offset in 100 kHz, and
\* the bandwidths in resource blocks.
All  == {6, 15, 25, 50, 75, 100}
Wide == {25, 50, 75, 100}
Row(no, ul_low, ul_high, dl_low, dl_high, f_offset, bw) ==
  [no |-> no, ul_low |-> ul_low, ul_high |-> ul_high, dl_low |-> dl_low,
   dl_high |-> dl_high, f_offset |-> f_offset, bw |-> bw]
Tdd(no, low, high, bw) == Row(no, low, high, low, high, 0, bw)

eutra_operating_bands == <<
  Row( 1, 19200, 19800, 21100, 21700, 1900, Wide),
  Row( 2, 18500, 19100, 19300, 19900,  800, All),
  Row( 3, 17100, 17850, 18050, 18800,  950, All),
  Row( 4, 17100, 17550, 21100, 21550, 4000, All),
  Row( 5,  8240,  8490,  8690,  8940,  450, {6, 15, 25, 50}),
  Row( 6,  8300,  8400,  8750,  8850,  450, {25, 50}),
  Row( 7, 25000, 25700, 26200, 26900, 1200, Wide),
  Row( 8,  8800,  9150,  9250,  9600,  450, {6, 15, 25, 50}),
  Row( 9, 17499, 17849, 18449, 18799,  950, Wide),
  Row(11, 17100, 17700, 21100, 21700, 4000, Wide),
  Row(11, 14279, 14479, 14759, 14959,  480, {25, 50}),
  Row(12,  6990,  7160,  7290,  7460,  300, {6, 15, 25, 50}),
  Row(13,  7770,  7870,  7460,  7560, -310, {25, 50}),
  Row(14,  7880,  7980,  7580,  7680, -300, {25, 50}),
  Row(17,  7040,  7160,  7340,  7460,  300, {25, 50}),
  Row(18,  8150,  8300,  8600,  8750,  450, {25, 50, 75}),
  Row(19,  8300,  8450,  8750,  8900,  450, {25, 50, 75}),
  Row(20,  8320,  8620,  7910,  8210, -410, Wide),
  Row(21, 14479, 14629, 14959, 15109,  480, {25, 50, 75}),
  Row(22, 34100, 34900, 35100, 35900, 1000, Wide),
  Row(23, 20000, 20200, 21800, 22000, 1800, All),
  Row(24, 16265, 16605, 15250, 15590, -1015, {25, 50}),
  Row(25, 18500, 19150, 19300, 19950,  800, All),
  Row(26,  8140,  8490,  8590,  8940,  450, {6, 15, 25, 50, 75}),
  Row(27,  8070,  8240,  8520,  8690,  450, {6, 15, 25, 50}),
  Row(28,  7030,  7480,  7580,  8030,  550, All \ {6}),
  Row(30, 23050, 23150, 23500, 23600,  450, {25, 50}),
  Row(31,  4525,  4575,  4625,  4675,  100, {6, 15, 25}),
  Tdd(33, 19000, 19200, Wide), Tdd(34, 20100, 20250, {25, 50, 75}),
  Tdd(35, 18500, 19100, All),  Tdd(36, 19300, 19900, All),
  Tdd(37, 19100, 19300, Wide), Tdd(38, 25700, 26200, Wide),
  Tdd(39, 18800, 19200, Wide), Tdd(40, 23000, 24000, Wide),
  Tdd(41, 24960, 26900, Wide), Tdd(42, 34000, 36000, Wide),
  Tdd(43, 36000, 38000, Wide), Tdd(44, 7030, 8030, All \ {6}),
  Tdd(45, 14470, 14670, Wide), Tdd(46, 51500, 59250, {50, 100}),
  Tdd(47, 58550, 59250, {50, 100}), Tdd(48, 35500, 37000, Wide),
  Row(65, 19200, 20100, 21100, 22000, 1900, All),
  Row(66, 17100, 17800, 21100, 22000, 4000, All),
  Row(68,  6980,  7280,  7530,  7830,  550, {25, 50, 75}),
  Row(70, 16950, 17100, 19950, 20200, 3000, Wide)>>

\* A uint8_t parameter takes a uint32 field.
Byte(n) == n % 256

\* get_eutra_band_index(): the first row with the number.
BandIndex(band) ==
  LET rows == {i \in DOMAIN eutra_operating_bands : eutra_operating_bands[i].no = Byte(band)}
  IN IF rows = {} THEN -1 ELSE CHOOSE i \in rows : \A j \in rows : i <= j

\* MHz * 1000000 in a uint32: 4295 MHz is 32704 Hz.  (Below 8590 MHz, that is once.)
Hz(mhz) == IF mhz < 4295 THEN <<10 * mhz, 0>> ELSE <<10 * (mhz - 4295), 32704>>

InRange(f, low, high) == f[1] >= low /\ f[1] < high

\* check_eutra_band() with its bandwidth
check_eutra_band(band, ul, dl, bw) ==
  LET i == BandIndex(band) IN
    /\ i # -1
    /\ LET row == eutra_operating_bands[i] IN
         /\ InRange(ul, row.ul_low, row.ul_high)
         /\ InRange(dl, row.dl_low, row.dl_high)
         /\ dl[1] - ul[1] = row.f_offset /\ dl[2] = ul[2]
         /\ Byte(bw) \in row.bw

\* Mutant: the frequencies are tested with the offset of the other direction.
MutOffsetReversed(c) ==
  /\ ~ c.other_fields
  /\ c.dl_bandwidth = c.ul_bandwidth
  /\ Byte(c.dl_bandwidth) \in All
  /\ check_eutra_band(c.eutra_band, Hz(c.dl_freq), Hz(c.ul_freq), c.dl_bandwidth)

\* other_fields: one is set that a restart cannot change, or one of these is missing.
verify_cell_config_for_restart(c) ==
  /\ ~ c.other_fields
  /\ c.dl_bandwidth = c.ul_bandwidth
  /\ Byte(c.dl_bandwidth) \in All
  /\ check_eutra_band(c.eutra_band, Hz(c.ul_freq), Hz(c.dl_freq), c.dl_bandwidth)
=============================================================================
