------------------------------ MODULE MCSysinfo ------------------------------
(* Model-checking instance: two types, the second with two devices, the    *)
(* first with one or none.                                                 *)
EXTENDS Sysinfo

CONSTANTS block, usb, disk1, usb1, usb2

MCTypes == <<block, usb>>
MCTypeOf == [d \in Device |-> IF d = disk1 THEN block ELSE usb]
=============================================================================
