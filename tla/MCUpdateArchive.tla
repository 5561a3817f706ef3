-------------------------- MODULE MCUpdateArchive --------------------------
EXTENDS UpdateArchive

Main(set) == [dest |-> "arc", set |-> set]
Second(set) == [dest |-> "other", set |-> set]
Add == <<1, 1, 2, 2, 2, 2, 2>>
Update == <<1, 1, 2, 1, 2, 1, 2>>
Delete == <<1, 0, 0, 0, 0, 0, 0>>
Synchronize == <<1, 0, 2, 1, 2, 1, 2>>
Differences == <<0, 3, 2, 2, 2, 0, 2>>   \* the example -up0q3x2z0!update.7z
MCCommandLists ==
  {<<Main(Add)>>, <<Main(Delete)>>, <<Main(Synchronize)>>,
   <<Main(Update), Second(Differences)>>, <<Second(Differences)>>, <<>>}
\* Every name is matched; the first has gone from the disk, the others are newer.
MCLaterInputs ==
  {[kind |-> [n \in Name |-> IF n = 1 THEN "absent" ELSE "newer"],
    masked |-> [n \in Name |-> TRUE], twice |-> FALSE]}
=============================================================================
