------------------------------ MODULE Storage ------------------------------
(***************************************************************************)
(* The object store of the server (storage.Local): a set of objects, each  *)
(* the bytes saved under a storage key.  A key is the directory an object  *)
(* lives in and its file name; the directories the service uses are named  *)
(* after random identifiers, here the natural numbers.                     *)
(*                                                                         *)
(* Local writes an object to a temporary file and renames it over the key, *)
(* so a save is one atomic step: a reader never sees half an object.       *)
(***************************************************************************)
EXTENDS Naturals

CONSTANT Filenames      \* the file names an EPUB object may be given

Key == [dir : Nat, name : Filenames \cup {""}]

NoKey == [dir |-> 0, name |-> ""]

(***************************************************************************)
(* An object holds the text of one edition of a book: the edits it         *)
(* contains, each named by the revision that made it, and the revision     *)
(* that last replaced the cover picture inside the EPUB (0: none did).     *)
(***************************************************************************)
Text == [edits : SUBSET Nat, art : Nat]

Object == [key : Key, text : Text]

Stored(objects, key) == \E o \in objects : o.key = key

Without(objects, key) == {o \in objects : o.key # key}

\* Save replaces whatever the key held.
Save(objects, key, text) ==
  Without(objects, key) \cup {[key |-> key, text |-> text]}

\* Deleting an object that does not exist is not an error.
Delete(objects, key) == Without(objects, key)

\* Rename moves the bytes under old to new, over whatever new held.
Rename(objects, old, new) ==
  IF old = new THEN objects
  ELSE Without(Without(objects, old), new)
         \cup {[key |-> new, text |-> o.text] : o \in {x \in objects : x.key = old}}
=============================================================================
