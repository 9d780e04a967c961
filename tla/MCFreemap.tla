---------------------------- MODULE MCFreemap ----------------------------
(* Instances of Freemap for TLC.  A bitmap block has four units. *)
EXTENDS Freemap

\* Inodes are of the smallest size; data is half a block, a block or two blocks.
MCMixed == {<<"INODE", 0>>, <<"DATA", 1>>, <<"DATA", 2>>, <<"DATA", 3>>}

\* Inodes, and data of half a block.
MCSmall == {<<"INODE", 0>>, <<"DATA", 1>>}

\* Inodes, and indirect blocks and data of the same size.
MCSameSize == {<<"INODE", 0>>, <<"INDIRECT", 2>>, <<"DATA", 2>>}
=============================================================================
