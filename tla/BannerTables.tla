---------------------------- MODULE BannerTables ----------------------------
(***************************************************************************)
(* The tables of bannerdata.c, one row per banner version or one entry per *)
(* game version.  Row r of the code is entry r + 1 of a sequence here.     *)
(***************************************************************************)
EXTENDS Integers, TLC

NoBanner == 65535      \* 0xffff: no second character banner in this phase

FourStarChrUpTable ==
  <<<<1023, 1031, 1014>>, <<1025, 1034, 1043>>, <<1027, 1024, 1039>>, <<1044, 1036, 1020>>,
    <<1031, 1043, 1032>>, <<1023, 1025, 1034>>, <<1039, 1024, 1044>>, <<1027, 1032, 1014>>,
    <<1027, 1032, 1014>>, <<1025, 1036, 1023>>, <<1043, 1020, 1034>>, <<1014, 1031, 1045>>,
    <<1048, 1034, 1039>>, <<1044, 1025, 1024>>, <<1014, 1043, 1031>>, <<1045, 1032, 1020>>,
    <<1027, 1036, 1048>>, <<1053, 1039, 1044>>, <<1056, 1023, 1043>>, <<1045, 1024, 1025>>,
    <<1027, 1036, 1048>>, <<1050, 1039, 1053>>, <<1032, 1034, 1045>>, <<1055, 1014, 1023>>,
    <<1064, 1027, 1036>>, <<1025, 1024, 1048>>, <<1031, 1039, 1050>>, <<1044, 1056, 1032>>,
    <<1023, 1043, 1064>>, <<1045, 1053, 1020>>, <<1048, 1014, 1034>>, <<1036, 1055, 1065>>,
    <<1027, 1059, 1050>>, <<1064, 1044, 1032>>, <<1067, 1039, 1031>>, <<1025, 1043, 1068>>,
    <<1065, 1053, 1072>>, <<1024, 1014, 1023>>, <<1032, 1020, 1034>>, <<1074, 1059, 1050>>,
    <<1076, 1055, 1048>>, <<1045, 1053, 1056>>, <<1044, 1064, 1077>>, <<1025, 1027, 1024>>,
    <<1067, 1014, 1032>>, <<1080, 1043, 1039>>, <<1065, 1068, 1074>>, <<1081, 1031, 1072>>,
    <<1036, 1064, 1061>>, <<1077, 1023, 1059>>, <<1080, 1020, 1050>>, <<1076, 1045, 1048>>,
    <<1083, 1032, 1014>>, <<1053, 1034, 1085>>, <<1025, 1031, 1039>>, <<1068, 1036, 1050>>,
    <<1067, 1024, 1088>>, <<1061, 1065, 1023>>, <<1043, 1045, 1072>>, <<1090, 1056, 1032>>,
    <<1092, 1034, 1076>>, <<1077, 1044, 1027>>, <<1055, 1068, 1064>>, <<1014, 1025, 1048>>,
    <<1083, 1085, 1023>>, <<1074, 1076, 1024>>, <<1097, 1032, 1050>>, <<1034, 1045, 1092>>,
    <<1061, 1081, 1092>>, <<1020, 1023, 1048>>, <<4100, 1032, 1044>>, <<1050, 1056, 1090>>,
    <<1067, 1068, 1072>>, <<1025, 1065, 1097>>, <<4105, 1014, 1043>>, <<1031, 1059, 1077>>,
    <<1032, 1039, 4100>>, <<4108, 1045, 1090>>, <<1006, 1015, 1021>>, <<1006, 1015, 1021>>,
    <<1006, 1015, 1021>>, <<1006, 1015, 1021>>>>

FiveStarChrUpTable ==
  <<<<1022, NoBanner>>, <<1029, NoBanner>>, <<1033, NoBanner>>, <<1030, NoBanner>>,
    <<1038, NoBanner>>, <<1037, NoBanner>>, <<1026, NoBanner>>, <<1042, NoBanner>>,
    <<1042, NoBanner>>, <<1046, NoBanner>>, <<1022, NoBanner>>, <<1033, NoBanner>>,
    <<1030, NoBanner>>, <<1051, NoBanner>>, <<1029, NoBanner>>, <<1047, NoBanner>>,
    <<1002, NoBanner>>, <<1049, NoBanner>>, <<1052, NoBanner>>, <<1054, NoBanner>>,
    <<1033, NoBanner>>, <<1046, NoBanner>>, <<1038, 1051>>, <<1057, NoBanner>>,
    <<1063, 1026>>, <<1030, 1037>>, <<1058, NoBanner>>, <<1052, 1054>>, <<1066, 1022>>,
    <<1002, NoBanner>>, <<1060, 1026>>, <<1057, NoBanner>>, <<1029, 1047>>,
    <<1049, NoBanner>>, <<1069, 1030>>, <<1037, 1054>>, <<1071, 1022>>, <<1070, 1038>>,
    <<1073, 1049>>, <<1058, 1033>>, <<1075, 1057>>, <<1052, 1066>>, <<1078, 1026>>,
    <<1046, 1060>>, <<1079, 1071>>, <<1063, 1002>>, <<1073, 1070>>, <<1082, 1037>>,
    <<1049, 1058>>, <<1078, 1047>>, <<1051, 1029>>, <<1054, 1075>>, <<1084, 1060>>,
    <<1030, 1033>>, <<1087, 1046>>, <<1086, 1022>>, <<1089, 1082>>, <<1071, 1066>>,
    <<1091, 1002>>, <<1052, 1049>>, <<1093, 1073>>, <<1026, 1058>>, <<1094, 1057>>,
    <<1087, 1047>>, <<1096, 1084>>, <<1075, 1082>>, <<1098, 1078>>, <<1095, 1089>>,
    <<1091, 1070>>, <<1099, 1060>>, <<4102, 1047>>, <<4101, 1052>>, <<4103, 1094>>,
    <<1073, 1046>>, <<4104, 1084>>, <<1087, 1030>>, <<4106, 4107>>, <<1096, 1098>>,
    <<4109, 1095>>, <<1089, 1086>>, <<1005, 1007>>, <<1005, 1007>>>>

FourStarWpnUpTable ==
  <<<<13407, 11402, 12402, 15402, 14402>>, <<13401, 11403, 12403, 14403, 15403>>,
    <<15405, 11402, 14410, 13407, 12405>>, <<12402, 11405, 13401, 14401, 15401>>,
    <<12401, 13407, 11405, 15402, 14402>>, <<13401, 14409, 12402, 11403, 15401>>,
    <<14409, 13407, 11402, 15405, 12403>>, <<14409, 13407, 11402, 15405, 12403>>,
    <<11405, 12410, 13406, 14402, 15403>>, <<11405, 12410, 13406, 14402, 15403>>,
    <<13401, 12401, 15401, 11410, 14410>>, <<15410, 11401, 13407, 14401, 12403>>,
    <<12410, 13406, 15403, 11402, 14409>>, <<13401, 14403, 11403, 15405, 12405>>,
    <<13407, 11405, 15412, 12402, 14402>>, <<15410, 13401, 12401, 11410, 14410>>,
    <<14401, 11401, 13407, 15402, 12403>>, <<13401, 15401, 12405, 11403, 14403>>,
    <<12402, 11405, 14402, 15403, 13407>>, <<13401, 14401, 12401, 11402, 15402>>,
    <<13407, 14409, 15405, 11401, 12416>>, <<11403, 12405, 13416, 14402, 15416>>,
    <<11405, 12403, 13401, 14410, 15410>>, <<11410, 12402, 13407, 14403, 15412>>,
    <<11402, 12401, 13406, 14402, 15401>>, <<11401, 12410, 13401, 14401, 15403>>,
    <<11403, 12405, 13416, 14409, 15402>>, <<12416, 15416, 11405, 13407, 14403>>,
    <<15405, 11402, 14402, 13401, 12403>>, <<11401, 12402, 13407, 14401, 15401>>,
    <<13406, 11403, 12401, 14409, 15403>>, <<12410, 11405, 13401, 14403, 15402>>,
    <<11410, 12405, 13407, 14402, 15412>>, <<14410, 15410, 11402, 12403, 13401>>,
    <<11401, 12402, 13407, 14401, 15402>>, <<11403, 12401, 13401, 14409, 15405>>,
    <<11405, 12415, 13407, 14403, 15401>>, <<11418, 12405, 13401, 14416, 15403>>,
    <<11402, 12403, 13407, 14402, 15405>>, <<11401, 12402, 13401, 14401, 15402>>,
    <<11403, 12401, 13416, 14409, 15401>>, <<12416, 15416, 11405, 13407, 14403>>,
    <<13406, 11402, 12405, 14402, 15403>>, <<12410, 11401, 13401, 14401, 15405>>,
    <<11410, 15410, 12403, 13401, 14409>>, <<14410, 11403, 12402, 13407, 15401>>,
    <<11418, 12401, 13401, 14403, 15402>>, <<12415, 14416, 11405, 13407, 15403>>,
    <<12416, 11402, 13401, 14402, 15405>>, <<13416, 15416, 11401, 12403, 14401>>,
    <<11410, 15410, 12405, 13407, 14409>>, <<11405, 12402, 14410, 13401, 15401>>,
    <<11403, 12410, 15403, 13407, 14403>>, <<11402, 12413, 13401, 14402, 15405>>,
    <<11427, 12427, 15412, 13407, 14401>>, <<15427, 13427, 11401, 12405, 14409>>,
    <<11403, 12402, 13401, 14403, 15402>>, <<11405, 12401, 13407, 14402, 15401>>,
    <<11402, 12416, 13401, 14401, 15416>>, <<11401, 12405, 13416, 14409, 15405>>,
    <<11403, 12403, 13406, 14403, 15403>>, <<11405, 12410, 13407, 14402, 15402>>,
    <<11410, 12402, 13401, 14401, 15410>>, <<11402, 12401, 13407, 14410, 15412>>,
    <<11427, 12427, 13401, 14409, 15401>>, <<11401, 12405, 13427, 14403, 15427>>,
    <<11403, 12403, 13406, 14402, 15402>>, <<11405, 12410, 13407, 14401, 15403>>,
    <<11418, 12402, 13401, 14409, 15405>>, <<11402, 12415, 13407, 14416, 15401>>,
    <<11401, 12401, 13401, 14403, 15402>>, <<11403, 12405, 13407, 14402, 15403>>,
    <<11430, 13430, 12403, 14401, 15405>>, <<12430, 11405, 13401, 14409, 15401>>,
    <<14430, 15430, 11402, 12402, 13407>>, <<11401, 12401, 13401, 14403, 15412>>,
    <<11403, 12410, 13407, 14401, 15402>>, <<11405, 12405, 13406, 14402, 15403>>,
    <<11400, 12400, 13400, 14400, 15400>>, <<11400, 12400, 13400, 14400, 15400>>,
    <<11400, 12400, 13400, 14400, 15400>>, <<11400, 12400, 13400, 14400, 15400>>>>

FiveStarWpnUpTable ==
  <<<<15502, 15501>>, <<14502, 12502>>, <<15501, 14504>>, <<13504, 12504>>, <<11504, 14501>>,
    <<15502, 12501>>, <<11505, 13505>>, <<11505, 13505>>, <<13501, 12502>>, <<13501, 12502>>,
    <<15503, 11502>>, <<15501, 14502>>, <<11504, 14504>>, <<12503, 11501>>, <<14502, 12501>>,
    <<11503, 14501>>, <<11509, 13502>>, <<15509, 11502>>, <<13509, 12504>>, <<11505, 14506>>,
    <<14504, 15507>>, <<13501, 15503>>, <<11503, 12503>>, <<12510, 15501>>, <<13507, 13505>>,
    <<13504, 15502>>, <<14509, 11505>>, <<13509, 14506>>, <<11510, 15503>>, <<11509, 12504>>,
    <<15508, 13505>>, <<12510, 14504>>, <<11503, 14502>>, <<15509, 11504>>, <<15511, 13504>>,
    <<15502, 14506>>, <<13511, 15503>>, <<11511, 11505>>, <<14511, 15509>>, <<14509, 15507>>,
    <<14512, 12510>>, <<13509, 11510>>, <<11512, 13505>>, <<13501, 15508>>, <<12511, 13511>>,
    <<13501, 15508>>, <<11511, 14511>>, <<14505, 15502>>, <<15509, 14509>>, <<11503, 11512>>,
    <<12503, 14502>>, <<14512, 14506>>, <<15512, 15508>>, <<13504, 15507>>, <<14514, 13501>>,
    <<14513, 15503>>, <<11513, 14505>>, <<13511, 11510>>, <<12512, 11509>>, <<15509, 13509>>,
    <<14515, 14511>>, <<13505, 14509>>, <<11514, 12510>>, <<14514, 11503>>, <<13512, 15512>>,
    <<14512, 14505>>, <<11515, 11512>>, <<15513, 11513>>, <<12512, 11511>>, <<13513, 15508>>,
    <<14516, 11503>>, <<12513, 13509>>, <<11516, 11514>>, <<14511, 13501>>, <<15514, 15512>>,
    <<14514, 13504>>, <<12514, 14517>>, <<13512, 11515>>, <<14518, 15513>>, <<11513, 14513>>,
    <<10500, 10501>>, <<10500, 10501>>>>

\* The rows that hold a second character banner.
TwoBannerRows == {r \in 0..81 : FiveStarChrUpTable[r + 1][2] # NoBanner}

\* The pools of the Chronicled Wish; the order of the 5-stars is that of -e.
ChronicleCourses441 ==
  <<1051, 1041, 1038, 1029, 1016, 1003, 11502, 11501, 12501, 12502, 12503, 12511, 13502,
    14502, 14501, 15501, 15511>>

ChronicleCourses532 ==
  <<1026, 1033, 1035, 1037, 1042, 1063, 1082, 11504, 11505, 12504, 13505, 13507, 14504,
    14505, 15502, 15507>>

OfClass(items, c) == {it \in {items[k] : k \in DOMAIN items} : c = IF it >= 10000 THEN "wpn" ELSE "chr"}

ChroniclePool4_441 ==
  <<1006, 1014, 1015, 1020, 1021, 1031, 1032, 1034, 1039, 1043, 1045, 1080, 11401, 11402,
    11403, 11405, 12401, 12402, 12403, 12405, 13401, 13407, 14401, 14402, 14403, 14409,
    14410, 15401, 15402, 15403, 15405, 15410, 15412>>

ChroniclePool4_532 ==
  <<1023, 1024, 1025, 1027, 1036, 1044, 1048, 1064, 1077, 1092, 11401, 11402, 11403, 11405,
    12401, 12402, 12403, 12405, 13401, 13406, 13407, 14401, 14402, 14403, 14409, 15401,
    15402, 15403, 15405>>

BothClasses(items) == [c \in {"chr", "wpn"} |-> OfClass(items, c)]
ChroniclePool441 == 4 :> BothClasses(ChroniclePool4_441) @@ 5 :> BothClasses(ChronicleCourses441)
ChroniclePool532 == 4 :> BothClasses(ChroniclePool4_532) @@ 5 :> BothClasses(ChronicleCourses532)

\* The permanent characters in order of appearance, and the version each
\* appeared with, which the code has in the comments of its lists.
FourStarChrTable ==
  <<1006, 1015, 1021, 1014, 1020, 1023, 1024, 1025, 1027, 1031, 1032, 1036, 1043, 1034, 1039,
    1044, 1045, 1048, 1053, 1056, 1050, 1055, 1064, 1065, 1059, 1067, 1068, 1072, 1074, 1076,
    1077, 1080, 1081, 1061, 1083, 1085, 1088, 1090, 1092, 1097, 4100, 4105, 4108>>

FourStarJoined ==
  <<<<1, 0>>, <<1, 0>>, <<1, 0>>, <<1, 0>>, <<1, 0>>, <<1, 0>>, <<1, 0>>, <<1, 0>>, <<1, 0>>,
    <<1, 0>>, <<1, 0>>, <<1, 0>>, <<1, 0>>, <<1, 0>>, <<1, 2>>, <<1, 2>>, <<1, 5>>, <<1, 6>>,
    <<2, 1>>, <<2, 2>>, <<2, 3>>, <<2, 4>>, <<2, 5>>, <<2, 8>>, <<3, 0>>, <<3, 1>>, <<3, 1>>,
    <<3, 2>>, <<3, 3>>, <<3, 4>>, <<3, 5>>, <<3, 6>>, <<3, 7>>, <<3, 8>>, <<4, 1>>, <<4, 1>>,
    <<4, 3>>, <<4, 4>>, <<4, 5>>, <<4, 8>>, <<5, 1>>, <<5, 3>>, <<5, 4>>>>

FiveStarChrTable == <<1003, 1016, 1035, 1041, 1042, 1069, 1079>>

FiveStarJoined == <<<<1, 0>>, <<1, 0>>, <<1, 0>>, <<1, 0>>, <<1, 0>>, <<3, 1>>, <<3, 6>>>>

\* Up to which entry they were in the pool of a version; entry 0 of the code is
\* that of the Beginners' Wish.  The 41st of the declared entries is not written.
FourStarMaxIndexTable ==
  <<10, 11, 11, 13, 13, 13, 14, 15, 15, 16, 17, 18, 19, 20, 20, 20, 21, 22, 24, 25, 26, 27,
    28, 29, 30, 31, 31, 33, 33, 34, 35, 36, 36, 36, 37, 37, 38, 38, 39, 40>>

FiveStarMaxIndexTable ==
  <<5, 5, 5, 5, 5, 5, 5, 5, 5, 5, 5, 5, 5, 5, 5, 5, 5, 5, 6, 6, 6, 6, 6, 7, 7, 7, 7, 7, 7, 7,
    7, 7, 7, 7, 7, 7, 7, 7, 7, 7>>

ThreeStarTable ==
  {11301, 11302, 11306, 12301, 12302, 12305, 13303, 14301, 14302, 15304, 15301, 15302}

FourStarWpnTable ==
  {11401, 11402, 11403, 11405, 12401, 12402, 12403, 12405, 13401, 13407, 14401, 14402,
      14403, 14409, 15401, 15402, 15403, 15405}

FiveStarWpnTable ==
  {11501, 11502, 12501, 12502, 13502, 13505, 14501, 14502, 15501, 15502}
=============================================================================
