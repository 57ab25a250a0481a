----------------------------- MODULE MCDirtyLog -----------------------------
(* A small instance of DirtyLog: two slots and region sizes of no page,   *)
(* half a page (rejected), one page, and 64 and 65 pages, the two sides   *)
(* of a bitmap word boundary, with the code's 4 KiB page.                 *)
EXTENDS DirtyLog

MCRegionSizes == {0, 2048, 4096, 64 * 4096, 65 * 4096}

=============================================================================
