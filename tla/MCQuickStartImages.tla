------------------------ MODULE MCQuickStartImages ------------------------
(* Three images: the first ships a key and an account file, whose account  *)
(* is not the fleet XML's; the second a key only, the third an account     *)
(* file only.                                                              *)
EXTENDS QuickStartImages

MCAccount == <<"batesste", "ubuntu", "ubuntu">>
MCCarries == <<{"key", "info"}, {"key"}, {"info"}>>
=============================================================================
