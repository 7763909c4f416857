-------------------------------- MODULE Wire --------------------------------
(***************************************************************************)
(* What the PTP datasets of src/mtp/ptp look like on the wire: integers,   *)
(* strings and arrays (InputStream, OutputStream), the datasets built of   *)
(* them (Messages.h), commands in their containers, property lists, and    *)
(* the data phase that is read from two joined streams.                    *)
(*                                                                         *)
(* Data is a sequence of bytes.  A u32 is the integer of its 32 bits in    *)
(* two's complement, TLC's integers being no wider: 0xffffffff is -1.  A   *)
(* std::string is the sequence of its UTF-8 bytes, and what the device     *)
(* calls an object is the sequence of its UTF-16 units.                    *)
(***************************************************************************)
EXTENDS Integers, SequencesExt

Byte(d, at) == d[at + 1]

Write8(v) == <<v % 256>>
Write16(v) == Write8(v) \o Write8(v \div 256)
Write32(v) == Write16(v) \o Write16(v \div 65536)

Read8(d, at) == Byte(d, at)
Read16(d, at) == Read8(d, at) + 256 * Read8(d, at + 1)
Signed(h) == IF h < 32768 THEN h ELSE h - 65536
Read32(d, at) == Read16(d, at) + 65536 * Signed(Read16(d, at + 2))

-----------------------------------------------------------------------------
(* Strings *)

Utf8Length(s) == Len(SelectSeq(s, LAMBDA c : c \div 64 # 2))

Bits(c, n) == c % (2 ^ n)

\* The unit that begins at byte p, and the bytes it takes.  What follows the
\* end of the string plays no part in the unit.
Unit(s, p) ==
    LET b(n) == IF p + n <= Len(s) THEN s[p + n] ELSE 0
        c == b(0)
    IN  CASE c \in {192, 193} \/ c >= 245 -> [unit |-> 63, width |-> 1]
          [] c < 128 -> [unit |-> c, width |-> 1]
          [] c \in 194 .. 223 -> [unit |-> Bits(c, 5) * 64 + Bits(b(1), 6), width |-> 2]
          [] c \in 224 .. 239 -> [unit |-> Bits(c, 4) * 4096 + Bits(b(1), 6) * 64 + Bits(b(2), 6),
                                  width |-> 3]
          [] OTHER -> [unit |-> 63, width |-> 3]

\* The loop counts the terminator in, and so may go on for one unit too many.
UnitsOf(s) ==
    LET f[i \in 0 .. 1 + Utf8Length(s), p \in 1 .. Len(s) + 3] ==
            IF i = 1 + Utf8Length(s) \/ p > Len(s) THEN <<>>
            ELSE <<Unit(s, p).unit>> \o f[i + 1, p + Unit(s, p).width]
    IN  f[0, 1]

\* Mutant: the count leaves the terminator out.
WriteStringShort(s) ==
    IF s = <<>> THEN Write8(0)
    ELSE Write8(Utf8Length(s)) \o FlattenSeq([n \in DOMAIN UnitsOf(s) |-> Write16(UnitsOf(s)[n])])
         \o Write16(0)

WriteString(s) ==
    IF s = <<>> THEN Write8(0)
    ELSE Write8(1 + Utf8Length(s)) \o FlattenSeq([n \in DOMAIN UnitsOf(s) |-> Write16(UnitsOf(s)[n])])
         \o Write16(0)

Utf8(unit) ==
    CASE unit = 0 -> <<>>
      [] unit \in 1 .. 127 -> <<unit>>
      [] unit \in 128 .. 2047 -> <<192 + unit \div 64, 128 + Bits(unit, 6)>>
      [] OTHER -> <<224 + unit \div 4096, 128 + Bits(unit, 12) \div 64, 128 + Bits(unit, 6)>>

ReadString(d, at) ==
    FlattenSeq([n \in 1 .. Read8(d, at) |-> Utf8(Read16(d, at + 2 * n - 1))])

\* The device's own strings.
NameOf(d, at) ==
    LET units == [n \in 1 .. Read8(d, at) |-> Read16(d, at + 2 * n - 1)]
    IN  SelectSeq(units, LAMBDA u : u # 0)
StringOf(units) ==
    IF units = <<>> THEN <<0>>
    ELSE Write8(Len(units) + 1) \o FlattenSeq([n \in DOMAIN units |-> Write16(units[n])]) \o Write16(0)

-----------------------------------------------------------------------------
(* Fields and datasets *)

Encode(kind, v) ==
    CASE kind = "u8" -> Write8(v)
      [] kind = "u16" -> Write16(v)
      [] kind = "u32" -> Write32(v)
      [] kind = "string" -> WriteString(v)
      [] kind = "u16s" -> Write32(Len(v)) \o FlattenSeq([n \in DOMAIN v |-> Write16(v[n])])
      [] kind = "u32s" -> Write32(Len(v)) \o FlattenSeq([n \in DOMAIN v |-> Write32(v[n])])

\* An array of nothing may be left out at the end of the data.
Width(kind, d, at) ==
    CASE kind = "u8" -> 1
      [] kind = "u16" -> 2
      [] kind = "u32" -> 4
      [] kind = "u64" -> 8
      [] kind = "string" -> 1 + 2 * Read8(d, at)
      [] kind = "u16s" -> IF at >= Len(d) THEN 0 ELSE 4 + 2 * Read32(d, at)
      [] kind = "u32s" -> IF at >= Len(d) THEN 0 ELSE 4 + 4 * Read32(d, at)

Decode(kind, d, at) ==
    CASE kind = "u8" -> Read8(d, at)
      [] kind = "u16" -> Read16(d, at)
      [] kind \in {"u32", "u64"} -> Read32(d, at)
      [] kind = "string" -> ReadString(d, at)
      [] kind = "u16s" -> IF at >= Len(d) THEN <<>>
                          ELSE [n \in 1 .. Read32(d, at) |-> Read16(d, at + 2 + 2 * n)]
      [] kind = "u32s" -> IF at >= Len(d) THEN <<>>
                          ELSE [n \in 1 .. Read32(d, at) |-> Read32(d, at + 4 * n)]

\* A dataset is a sequence of fields <<name, kind>>, a message a record that has
\* them.
WriteMessage(fields, m) == FlattenSeq([n \in DOMAIN fields |-> Encode(fields[n][2], m[fields[n][1]])])

\* Where field n begins.
Offset(fields, d, n) ==
    LET f[k \in 1 .. Len(fields)] ==
            IF k = 1 THEN 0 ELSE LET at == f[k - 1] IN at + Width(fields[k - 1][2], d, at)
    IN  f[n]

Field(fields, d, name) ==
    LET n == CHOOSE k \in DOMAIN fields : fields[k][1] = name
    IN  Decode(fields[n][2], d, Offset(fields, d, n))

-----------------------------------------------------------------------------
(* Messages.h *)

Named(kind, names) == [n \in DOMAIN names |-> <<names[n], kind>>]

ObjectInfo ==
    <<<<"StorageId", "u32">>, <<"ObjectFormat", "u16">>, <<"ProtectionStatus", "u16">>,
      <<"ObjectCompressedSize", "u32">>, <<"ThumbFormat", "u16">>>>
    \o Named("u32", <<"ThumbCompressedSize", "ThumbPixWidth", "ThumbPixHeight", "ImagePixWidth",
                      "ImagePixHeight", "ImageBitDepth", "ParentObject">>)
    \o <<<<"AssociationType", "u16">>, <<"AssociationDesc", "u32">>, <<"SequenceNumber", "u32">>>>
    \o Named("string", <<"Filename", "CaptureDate", "ModificationDate", "Keywords">>)

\* ObjectInfo::ObjectInfo, and the size that must fit.
NewObject ==
    [f \in {ObjectInfo[n][1] : n \in DOMAIN ObjectInfo} |->
        IF f \in {"Filename", "CaptureDate", "ModificationDate", "Keywords"} THEN <<>> ELSE 0]

\* Mutant: the name is written where the date belongs.
WriteObjectInfoSwapped(m) ==
    WriteMessage(ObjectInfo, [m EXCEPT !.Filename = <<>>, !.CaptureDate = m.Filename])

WriteObjectInfo(m) == WriteMessage(ObjectInfo, m)

DeviceInfo ==
    <<<<"StandardVersion", "u16">>, <<"VendorExtensionId", "u32">>, <<"VendorExtensionVersion", "u16">>,
      <<"VendorExtensionDesc", "string">>, <<"FunctionalMode", "u16">>>>
    \o Named("u16s", <<"OperationsSupported", "EventsSupported", "DevicePropertiesSupported",
                       "CaptureFormats", "ImageFormats">>)
    \o Named("string", <<"Manufacturer", "Model", "DeviceVersion", "SerialNumber">>)

StorageInfo ==
    Named("u16", <<"StorageType", "FilesystemType", "AccessCapability">>)
    \o Named("u64", <<"MaxCapacity", "FreeSpaceInBytes">>)
    \o <<<<"FreeSpaceInImages", "u32">>, <<"StorageDescription", "string">>, <<"VolumeLabel", "string">>>>

ObjectHandles == <<<<"ObjectHandles", "u32s">>>>
NewObjectInfo == Named("u32", <<"StorageId", "ParentObjectId", "ObjectId">>)
SendObjectPropListResponse == Append(NewObjectInfo, <<"FailedPropertyIndex", "u32">>)

\* What the device sends and takes: the datasets of the PTP and MTP standards.
StandardObjectInfo ==
    LET kinds == <<"u32", "u16", "u16", "u32", "u16", "u32", "u32", "u32", "u32", "u32", "u32", "u32",
                   "u16", "u32", "u32", "string", "string", "string", "string">>
        name(n) == CASE n = 1 -> "storage" [] n = 2 -> "format" [] n = 4 -> "size"
                     [] n = 12 -> "parent" [] n = 16 -> "name" [] OTHER -> "other"
    IN  [n \in 1 .. 19 |-> <<name(n), kinds[n]>>]
StandardInfo(o) ==
    FlattenSeq([n \in 1 .. 19 |->
        LET field == StandardObjectInfo[n]
        IN  CASE field[1] = "name" -> StringOf(o.name)
              [] field[1] = "other" -> IF field[2] = "string" THEN <<0>> ELSE Encode(field[2], 0)
              [] OTHER -> Encode(field[2], o[field[1]])])
StandardDevice(d) ==
    Write16(100) \o Write32(6) \o Write16(100) \o StringOf(<<>>) \o Write16(0)
    \o Encode("u16s", d.operations) \o FlattenSeq([n \in 1 .. 4 |-> Write32(0)])
    \o StringOf(d.manufacturer) \o StringOf(<<77>>) \o StringOf(<<49>>) \o StringOf(<<50>>)
StandardStorage(s) ==
    Write16(3) \o Write16(2) \o Write16(0) \o Write32(8000) \o Write32(0) \o Write32(4000) \o Write32(0)
    \o Write32(-1) \o StringOf(s.description) \o StringOf(s.label)
StandardHandles(s) == Write32(Len(s)) \o FlattenSeq([n \in DOMAIN s |-> Write32(s[n])])

-----------------------------------------------------------------------------
(* Property lists *)

ObjectFilename == 56327   \* 0xdc07
StringType == 65535

\* One property of an object yet to be created.
FilenameProperty(name) ==
    Write32(1) \o Write32(0) \o Write16(ObjectFilename) \o Write16(StringType) \o WriteString(name)

\* ObjectPropertyListParser: n elements of handle, property, type and value.
ParseNames(d) ==
    LET n == Read32(d, 0)
        at[k \in 1 .. n + 1] ==
            IF k = 1 THEN 4 ELSE LET prev == at[k - 1] + 8 IN prev + Width("string", d, prev)
    IN  [k \in 1 .. n |-> [id |-> Read32(d, at[k]), name |-> ReadString(d, at[k] + 8)]]

\* The device's list of the names of objects.
NameList(objects, names) ==
    Write32(Len(objects)) \o FlattenSeq([n \in DOMAIN objects |->
        Write32(objects[n]) \o Write16(ObjectFilename) \o Write16(StringType) \o StringOf(names[objects[n]])])

-----------------------------------------------------------------------------
(* Containers and the data phase *)

\* A container: its length, what it is, the operation and the transaction.
HeaderSize == 12
Request(code, transaction) == Write16(code) \o Write32(transaction)
Container(type, data) == Write32(Len(data) + 6) \o Write16(type) \o data
Command(code, transaction, parameters) ==
    Container(1, Request(code, transaction)
                 \o FlattenSeq([n \in DOMAIN parameters |-> Write32(parameters[n])]))
Parameter(d, n) == Read32(d, HeaderSize + 4 * (n - 1))

\* Mutant: the chunk in which the first stream ends is not filled up.
ReadJoinedShort(first, second, size) ==
    IF first >= size THEN [first |-> first - size, second |-> second, read |-> size]
    ELSE IF first > 0 THEN [first |-> 0, second |-> second, read |-> first]
    ELSE LET more == IF second < size THEN second ELSE size
         IN  [first |-> 0, second |-> second - more, read |-> more]

\* JoinedObjectInputStream::Read: what is left of both streams afterwards.
ReadJoined(first, second, size) ==
    LET r == IF first < size THEN first ELSE size
        more == IF second < size - r THEN second ELSE size - r
    IN  [first |-> first - r, second |-> second - more, read |-> r + more]

\* A bulk write ends with the first chunk that is not full: the bytes it sends.
Transferred(header, length, size) ==
    LET f[a \in 0 .. header, b \in 0 .. length] ==
            LET next == ReadJoined(a, b, size)
            IN  IF next.read < size THEN next.read ELSE next.read + f[next.first, next.second]
    IN  f[header, length]
=============================================================================
