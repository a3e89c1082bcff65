-------------------------------- MODULE MCBoot --------------------------------
(* Two builds, lists of up to three elements with two images.              *)
EXTENDS BootSequence

MCBuilds == {<<"serial", "flash", "sdcard", "net">>, <<"flash", "rom", "net">>}
MCNames == {"Image", "rootfs", "addr", "r1"}
MCKind(n) == IF n \in {"addr", "r1"} THEN n ELSE "image"
MCLists == UNION {[1..n -> Element] : n \in 0..2}
           \cup {<<[name |-> "Image", value |-> 0], [name |-> "addr", value |-> 1],
                   [name |-> "rootfs", value |-> v]>> : v \in Values}
===============================================================================
