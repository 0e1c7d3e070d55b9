----------------------------- MODULE CeltMode -----------------------------
(***************************************************************************)
(* The one mode CELT has here (celt/modes.rs): 48 kHz, frames of 2.5 ms    *)
(* times 2^lm, and its tables.  A band is a number from 0; sizes are in    *)
(* bins of the shortest frame.                                             *)
(***************************************************************************)
EXTENDS Integers, Sequences

NbEBands == 21
Bands == 0 .. NbEBands - 1

EBand5ms == <<0, 1, 2, 3, 4, 5, 6, 7, 8, 10, 12, 14, 16, 20, 24, 28, 34, 40, 48,
             60, 78, 100>>
EBands[j \in 0 .. NbEBands] == EBand5ms[j + 1]
Width(j) == EBands[j + 1] - EBands[j]

(* The logarithm of each band's width, in eighths.                         *)
LogN == <<0, 0, 0, 0, 0, 0, 0, 0, 8, 8, 8, 8, 16, 16, 16, 21, 21, 24, 29, 34, 36>>

(* Eleven qualities; for each, what a band's bins get, in 32nds of a bit.  *)
AllocVectors == <<
  <<0, 0, 0, 0, 0, 0, 0, 0, 0, 0, 0, 0, 0, 0, 0, 0, 0, 0, 0, 0, 0>>,
  <<90, 80, 75, 69, 63, 56, 49, 40, 34, 29, 20, 18, 10, 0, 0, 0, 0, 0, 0, 0, 0>>,
  <<110, 100, 90, 84, 78, 71, 65, 58, 51, 45, 39, 32, 26, 20, 12, 0, 0, 0, 0, 0, 0>>,
  <<118, 110, 103, 93, 86, 80, 75, 70, 65, 59, 53, 47, 40, 31, 23, 15, 4, 0, 0, 0, 0>>,
  <<126, 119, 112, 104, 95, 89, 83, 78, 72, 66, 60, 54, 47, 39, 32, 25, 17, 12, 1, 0, 0>>,
  <<134, 127, 120, 114, 103, 97, 91, 85, 78, 72, 66, 60, 54, 47, 41, 35, 29, 23, 16, 10, 1>>,
  <<144, 137, 130, 124, 113, 107, 101, 95, 88, 82, 76, 70, 64, 57, 51, 45, 39, 33, 26, 15, 1>>,
  <<152, 145, 138, 132, 123, 117, 111, 105, 98, 92, 86, 80, 74, 67, 61, 55, 49, 43, 36, 20, 1>>,
  <<162, 155, 148, 142, 133, 127, 121, 115, 108, 102, 96, 90, 84, 77, 71, 65, 59, 53, 46, 30, 1>>,
  <<172, 165, 158, 152, 143, 137, 131, 125, 118, 112, 106, 100, 94, 87, 81, 75, 69, 63, 56, 45, 20>>,
  <<200, 200, 200, 200, 200, 200, 200, 200, 198, 193, 188, 183, 178, 173, 168, 163, 158, 153, 148, 129, 104>> >>

(* How rich a band may get, for each length and number of channels.        *)
CacheCaps == <<
  <<224, 224, 224, 224, 224, 224, 224, 224, 160, 160, 160, 160, 185, 185, 185, 178, 178, 168, 134, 61, 37>>,
  <<224, 224, 224, 224, 224, 224, 224, 224, 240, 240, 240, 240, 207, 207, 207, 198, 198, 183, 144, 66, 40>>,
  <<160, 160, 160, 160, 160, 160, 160, 160, 185, 185, 185, 185, 193, 193, 193, 183, 183, 172, 138, 64, 38>>,
  <<240, 240, 240, 240, 240, 240, 240, 240, 207, 207, 207, 207, 204, 204, 204, 193, 193, 180, 143, 66, 40>>,
  <<185, 185, 185, 185, 185, 185, 185, 185, 193, 193, 193, 193, 193, 193, 193, 183, 183, 172, 138, 65, 39>>,
  <<207, 207, 207, 207, 207, 207, 207, 207, 204, 204, 204, 204, 201, 201, 201, 188, 188, 176, 141, 66, 40>>,
  <<193, 193, 193, 193, 193, 193, 193, 193, 193, 193, 193, 193, 194, 194, 194, 184, 184, 173, 139, 65, 39>>,
  <<204, 204, 204, 204, 204, 204, 204, 204, 201, 201, 201, 201, 198, 198, 198, 187, 187, 175, 140, 66, 40>> >>
Cap(j, channels, lm) ==
  ((CacheCaps[2 * lm + channels][j + 1] + 64) * channels * Width(j) * 2 ^ lm) \div 4

(* What k pulses cost in a vector of n bins, less one: the cache is indexed *)
(* by band and length, and bands of the same size share an entry.          *)
PulseCache == [n \in {1, 2, 3, 4, 6, 8, 9, 11, 12, 16, 18, 22, 24, 32, 36, 44, 48,
                64, 72, 88, 96, 144, 176} |->
  CASE n = 1 -> [q \in 1 .. 40 |-> 7]
    [] n = 2 -> <<15, 23, 28, 31, 34, 36, 38, 39, 41, 42, 43, 44, 45, 46, 47, 47, 49, 50,
           51, 52, 53, 54, 55, 55, 57, 58, 59, 60, 61, 62, 63, 63, 65, 66, 67, 68,
           69, 70, 71, 71>>
    [] n = 3 -> <<20, 33, 41, 48, 53, 57, 61, 64, 66, 69, 71, 73, 75, 76, 78, 80, 82, 85,
           87, 89, 91, 92, 94, 96, 98, 101, 103, 105, 107, 108, 110, 112, 114, 117,
           119, 121, 123, 124, 126, 128>>
    [] n = 4 -> <<23, 39, 51, 60, 67, 73, 79, 83, 87, 91, 94, 97, 100, 102, 105, 107, 111,
           115, 118, 121, 124, 126, 129, 131, 135, 139, 142, 145, 148, 150, 153,
           155, 159, 163, 166, 169, 172, 174, 177, 179>>
    [] n = 6 -> <<28, 49, 65, 78, 89, 99, 107, 114, 120, 126, 132, 136, 141, 145, 149,
           153, 159, 165, 171, 176, 180, 185, 189, 192, 199, 205, 211, 216, 220,
           225, 229, 232, 239, 245, 251>>
    [] n = 8 -> <<31, 55, 75, 91, 105, 117, 128, 138, 146, 154, 161, 168, 174, 180, 185,
           190, 200, 208, 215, 222, 229, 235, 240, 245, 255>>
    [] n = 9 -> <<33, 58, 79, 97, 112, 125, 137, 148, 157, 166, 174, 182, 189, 195, 201,
           207, 217, 227, 235, 243, 251>>
    [] n = 11 -> <<35, 63, 86, 106, 123, 139, 152, 165, 177, 187, 197, 206, 214, 222, 230,
           237, 250>>
    [] n = 12 -> <<36, 65, 89, 110, 128, 144, 159, 173, 185, 196, 207, 217, 226, 234, 242,
           250>>
    [] n = 16 -> <<39, 71, 99, 123, 144, 164, 182, 198, 214, 228, 241, 253>>
    [] n = 18 -> <<41, 74, 103, 128, 151, 172, 191, 209, 225, 241, 255>>
    [] n = 22 -> <<43, 79, 110, 138, 163, 186, 207, 227, 246>>
    [] n = 24 -> <<44, 81, 113, 142, 168, 192, 214, 235, 255>>
    [] n = 32 -> <<47, 87, 123, 155, 184, 212, 237>>
    [] n = 36 -> <<49, 90, 127, 160, 191, 220, 247>>
    [] n = 44 -> <<51, 95, 134, 170, 203, 234>>
    [] n = 48 -> <<52, 97, 137, 174, 208, 240>>
    [] n = 64 -> <<55, 103, 147, 187, 224>>
    [] n = 72 -> <<57, 106, 151, 192, 231>>
    [] n = 88 -> <<59, 111, 158, 202, 243>>
    [] n = 96 -> <<60, 113, 161, 206, 248>>
    [] n = 144 -> <<65, 122, 175, 224>>
    [] n = 176 -> <<67, 127, 182, 234>>]

(* size is the length a band has been split to: lm, or -1 for half a bin's *)
(* worth.  Half a bin has no entry.                                        *)
PulseBits(j, size) ==
  LET twice == Width(j) * 2 ^ (size + 1)
  IN IF twice = 1 THEN <<>> ELSE PulseCache[twice \div 2]

(* The change of a band's time resolution: for each length and kind of     *)
(* block, by tf_select and by the band's own choice.                       *)
TfSelectTable ==
  [short \in BOOLEAN |->
    IF short THEN << << <<0, -1>>, <<0, -1>> >>, << <<1, 0>>, <<1, -1>> >>,
                     << <<2, 0>>, <<1, -1>> >>, << <<3, 0>>, <<1, -1>> >> >>
    ELSE << << <<0, -1>>, <<0, -1>> >>, << <<0, -1>>, <<0, -2>> >>,
            << <<0, -2>>, <<0, -3>> >>, << <<0, -2>>, <<0, -3>> >> >>]
TfChange(lm, short, select, choice) == TfSelectTable[short][lm + 1][select + 1][choice + 1]
=============================================================================
