------------------------------- MODULE Formats -------------------------------
(***************************************************************************)
(* What a local file is taken for: its object format, which libmagic or    *)
(* the extension gives (mtp/ptp/ObjectFormat.cpp), and how good a cover    *)
(* its name makes it (qt/utils.cpp).                                       *)
(*                                                                         *)
(* A file is a record of its extension in lower case (ext), the MIME type  *)
(* libmagic sees ("" if it sees none or is not built in), and those of the *)
(* looked-for texts its name contains (words).                             *)
(***************************************************************************)
EXTENDS Integers, FiniteSetsExt

Undefined == 12288
Association == 12289
Text == 12292
Aiff == 12295
Mp3 == 12297
Asf == 12300
ExifJpeg == 14337
Bmp == 14340
Gif == 14343
Png == 14347
M4a == 45589
Wma == 47361
Ogg == 47362
Aac == 47363
Flac == 47366
Wmv == 47489
Mp4 == 47490
ThreeGp == 47492
M3uPlaylist == 47633

\* libmagic has no type for m3u, and its name of wav files is not in the table.
ByMime(type) ==
    CASE type = "inode/directory" -> Association [] type = "audio/mpeg" -> Mp3
      [] type = "text/plain" -> Text [] type = "image/jpeg" -> ExifJpeg [] type = "image/gif" -> Gif
      [] type = "image/x-ms-bmp" -> Bmp [] type = "image/png" -> Png
      [] type = "audio/x-ms-wma" -> Wma [] type = "audio/ogg" -> Ogg [] type = "audio/x-flac" -> Flac
      [] type = "audio/x-m4a" -> Aac [] type = "audio/audio/x-wav" -> Aiff
      [] type = "audio/mp4" -> Mp4 [] type = "application/x-mpegurl" -> M3uPlaylist
      [] OTHER -> Undefined

ByExtension(ext) ==
    CASE ext = "mp3" -> Mp3 [] ext = "txt" -> Text [] ext \in {"jpeg", "jpg"} -> ExifJpeg
      [] ext = "gif" -> Gif [] ext = "bmp" -> Bmp [] ext = "png" -> Png [] ext = "wma" -> Wma
      [] ext = "ogg" -> Ogg [] ext = "flac" -> Flac [] ext = "aac" -> Aac [] ext = "wav" -> Aiff
      [] ext = "wmv" -> Wmv [] ext = "mp4" -> Mp4 [] ext = "m4a" -> M4a [] ext = "3gp" -> ThreeGp
      [] ext = "asf" -> Asf [] OTHER -> Undefined

ObjectFormatFromFilename(file) ==
    IF file.ext = "m3u" THEN M3uPlaylist
    ELSE IF ByMime(file.mime) # Undefined THEN ByMime(file.mime)
    ELSE ByExtension(file.ext)

\* Those formats of IsAudioFormat that a file can be given: not Wav, nor Audible.
IsAudioFormat(format) == format \in {Aiff, Mp3, M4a, Wma, Ogg, Aac, Flac}
IsImageFormat(format) == format \div 256 = 56

Numbers == <<"0001", "0000", "001", "000", "01", "00", "1">>

\* The first number in the list that the name contains counts, and all of the words.
GetCoverScore(words) ==
    LET found == {n \in DOMAIN Numbers : Numbers[n] \in words}
        points == <<1001, 1000, 101, 100, 11, 10, 1>>
        worth(w, n) == IF w \in words THEN n ELSE 0
    IN  (IF found = {} THEN 0 ELSE points[Min(found)])
        + worth("art", 10000) + worth("album", 10000) + worth("cover", 20000)
        + worth("large", 20000) + worth("small", 10000) + worth("folder", 10000)
=============================================================================
