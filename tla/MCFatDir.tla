------------------------------ MODULE MCFatDir ------------------------------
(* Boot sectors of small disks, each field around the values it is tested  *)
(* against.                                                                *)
EXTENDS FatDir

SmallBootSectors ==
  [signed : BOOLEAN, spc : 0 .. 4, fat_start : 0 .. 2, fats : 0 .. 3,
   root_entries : 0 .. 3, fat_sectors : 0 .. 2, total : {0} \union 5 .. 14]

\* Keys of two and one characters: with and without padding and extension.
MCKeys == { <<"A", " ", " ">>, <<"A", "B", "B">>, <<"A", " ", "B">> }

\* Names of these files, in both cases, and every kind of name that is none.
MCNames ==
  { <<"a">>, <<"A", ".", "b">>, <<"a", "B", ".", "B">>, <<>>, <<".", "B">>,
    <<"A", ".">>, <<"A", "B", "B">>, <<"A", ".", "B", "B">>,
    <<"A", ".", "B", ".">>, <<"A", " ">>, <<"A", "?">> }

\* For these, what is searched and what is shown agree.
ASSUME MCNamesAgree == NamesAgree
=============================================================================
