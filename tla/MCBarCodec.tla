---------------------------- MODULE MCBarCodec ----------------------------
(* Instances of the codec for TLC.  The amounts are the one printed in the   *)
(* comment of TDXHQ.cpp (97 C3 7C 4D), others of 128 and more, smaller ones that *)
(* GetVolume misreads and one that it does not, and zero.                        *)
EXTENDS BarCodec

Bar(y, m, d, t, o, c, h, l, v, a) ==
  [year |-> y, month |-> m, day |-> d, hour |-> t \div 60, minute |-> t % 60,
   open |-> o, close |-> c, high |-> h, low |-> l, vol |-> v, amount |-> a]

Documented == <<151, 195, 124, 77>>
Plain == {Bar(2016, 12, 31, 900, 10210, 10280, 10280, 10190, 14999379, Documented),
          Bar(2035, 1, 1, 570, 10280, 2000, 18473, 1999, 63, <<1, 2, 128, 67>>),
          Bar(2004, 2, 29, 690, 64, 0, 8255, 0, 0, <<0, 0, 0, 0>>),
          Bar(2017, 10, 9, 571, 1, 1, 64, 1, 8192, <<255, 255, 255, 80>>),
          Bar(2017, 10, 10, 572, 10, 20, 30, 5, 7, <<0, 0, 32, 66>>),
          Bar(2017, 10, 11, 573, 10, 10, 10, 10, 1, <<7, 0, 128, 60>>),
          Bar(2017, 10, 12, 574, 11, 12, 12, 11, 1, <<0, 1, 0, 66>>)}
MCHistories == {<<a, b>> : a, b \in Plain} \cup {<<>>} \cup {<<a, b, a>> : a, b \in Plain}

MCZqdm == <<48, 48, 48, 48, 48, 49>>
=============================================================================
